---- MODULE Spec2Model ----
(***************************************************************************)
(* Transaction analytics of Kusovaya_1_Transactions: the cashback analyser *)
(* (src/services.py) and the report functions (src/reports.py).            *)
(*                                                                         *)
(* Conventions of the model                                                *)
(*   - money is counted in kopecks (1/100 rouble), so -150050 is -1500.50; *)
(*   - a column name is written in Latin letters: "Data operatsii" is      *)
(*     `Дата операции`, "Data platezha" is `Дата платежа`, "Kategoriya" is *)
(*     `Категория`, "Summa platezha" is `Сумма платежа`, "Keshbek" is      *)
(*     `Кешбэк` (the spelling of services.py) and "Keshbek_e" is `Кэшбэк`  *)
(*     (the spelling of tests/test_services.py);                           *)
(*   - a date cell or date argument is a record: a text, which carries the *)
(*     way it is written (field order, separator, time part) besides the   *)
(*     date it denotes, a typed timestamp, or a missing value;             *)
(*   - an instant is <<ordinal day, second of the day>>.                   *)
(***************************************************************************)
EXTENDS Integers, Sequences, FiniteSets, TLC

MaxRows == 3

(***************************************************************************)
(* Calendar arithmetic of datetime (proleptic Gregorian ordinals).         *)
(***************************************************************************)
IsLeap(y) == (y % 4 = 0) /\ ((y % 100 # 0) \/ (y % 400 = 0))

DaysInMonth(y, m) ==
    IF m = 2 THEN (IF IsLeap(y) THEN 29 ELSE 28)
    ELSE IF m \in {4, 6, 9, 11} THEN 30 ELSE 31

DaysBeforeYear(y) ==
    (y - 1) * 365 + ((y - 1) \div 4) - ((y - 1) \div 100) + ((y - 1) \div 400)

DaysBeforeMonth(y, m) ==
    <<0, 31, 59, 90, 120, 151, 181, 212, 243, 273, 304, 334>>[m]
        + (IF m > 2 /\ IsLeap(y) THEN 1 ELSE 0)

ToOrdinal(y, m, d) == DaysBeforeYear(y) + DaysBeforeMonth(y, m) + d

\* date.max is 9999-12-31, date.min is ordinal 1
MaxOrdinal == ToOrdinal(9999, 12, 31)

ValidDate(y, m, d) ==
    /\ y \in 1..9999
    /\ m \in 1..12
    /\ d >= 1
    /\ d <= DaysInMonth(y, m)

(***************************************************************************)
(* Date values.                                                            *)
(***************************************************************************)
\* the mark of a text without a time part
NoTime == 0 - 1

Text(order, sep, y, m, d, sec) ==
    [kind |-> "text", order |-> order, sep |-> sep,
     y |-> y, m |-> m, d |-> d, sec |-> sec]

Timestamp(y, m, d, sec) ==
    [kind |-> "ts", order |-> "", sep |-> "",
     y |-> y, m |-> m, d |-> d, sec |-> sec]

NaT == [kind |-> "nat", order |-> "", sep |-> "", y |-> 0, m |-> 0, d |-> 0, sec |-> 0]

Hms(h, mi, s) == h * 3600 + mi * 60 + s

Instant(ts) == <<ToOrdinal(ts.y, ts.m, ts.d), ts.sec>>

\* a <= b on instants
InstLe(a, b) == (a[1] < b[1]) \/ (a[1] = b[1] /\ a[2] <= b[2])

(***************************************************************************)
(* strptime: a text matches a format when it is written the way the format *)
(* says and names a date of the calendar; anything else is a ValueError.   *)
(***************************************************************************)
ValueError == [kind |-> "ValueError", order |-> "", sep |-> "", y |-> 0, m |-> 0, d |-> 0, sec |-> 0]

Format(order, sep, time) == [order |-> order, sep |-> sep, time |-> time]

FmtDMY == Format("dmy", ".", FALSE)

FmtYMD == Format("ymd", "-", FALSE)

FmtDMYHMS == Format("dmy", ".", TRUE)

FmtYMDHMS == Format("ymd", "-", TRUE)

strptime(s, fmt) ==
    IF /\ s.kind = "text"
       /\ s.order = fmt.order
       /\ s.sep = fmt.sep
       /\ (s.sec # NoTime) = fmt.time
       /\ ValidDate(s.y, s.m, s.d)
    THEN Timestamp(s.y, s.m, s.d, IF fmt.time THEN s.sec ELSE 0)
    ELSE ValueError

\* pd.to_datetime(column, format="%d.%m.%Y", errors="coerce"), one cell
to_datetime(cell) ==
    IF cell.kind = "ts" THEN cell
    ELSE IF strptime(cell, FmtDMY).kind = "ts" THEN strptime(cell, FmtDMY)
    ELSE NaT

(***************************************************************************)
(* Transactions.                                                           *)
(***************************************************************************)
ColDate == "Data operatsii"

ColPayDate == "Data platezha"

ColCategory == "Kategoriya"

ColAmount == "Summa platezha"

ColCashback == "Keshbek"

ColCashbackTests == "Keshbek_e"

NoCategory == "NaN"

\* the categories of the samples, in the order groupby sorts its keys
Categories == <<"Kafe i restorany", "Supermarkety", "Transport">>

CatRank(c) == CHOOSE i \in 1..Len(Categories) : Categories[i] = c

Row(date, pdate, cat, amt, cb) ==
    [date |-> date, pdate |-> pdate, cat |-> cat, amt |-> amt, cb |-> cb]

RECURSIVE SeqsUpTo(_, _)
SeqsUpTo(S, n) ==
    IF n = 0 THEN {<<>>}
    ELSE LET shorter == SeqsUpTo(S, n - 1)
         IN shorter \cup {Append(s, x) : s \in {t \in shorter : Len(t) = n - 1}, x \in S}

\* the indices of s that satisfy Keep, in order
RECURSIVE SelectIdx(_, _, _)
SelectIdx(n, Keep(_), acc) ==
    IF n = 0 THEN acc
    ELSE SelectIdx(n - 1, Keep, IF Keep(n) THEN <<n>> \o acc ELSE acc)

RECURSIVE SumSeq(_)
SumSeq(s) == IF s = <<>> THEN 0 ELSE Head(s) + SumSeq(Tail(s))

Abs(x) == IF x < 0 THEN -x ELSE x

\* round(x / q) to the nearest integer, a tie to the even one (numpy's round)
RoundHalfEven(x, q) ==
    LET lo == x \div q
        r  == x % q
    IN IF 2 * r < q THEN lo
       ELSE IF 2 * r > q THEN lo + 1
       ELSE IF lo % 2 = 0 THEN lo ELSE lo + 1

(***************************************************************************)
(* services.py: analyze_cashback_categories                                *)
(***************************************************************************)
Raise(exc) == [kind |-> "raise", exc |-> exc, value |-> <<>>]

Return(v) == [kind |-> "return", exc |-> "", value |-> v]

NotCalled == [kind |-> "none", exc |-> "", value |-> <<>>]

\* a validation that forgets the cashback field
required_columns_without_cashback == {ColDate, ColCategory, ColAmount}

required_columns == {ColDate, ColCategory, ColAmount, ColCashback}

\* the rows the mask of lines 32-36 keeps
cashback_mask(rows, year, month, i) ==
    LET t == to_datetime(rows[i].date)
    IN /\ t.kind = "ts"
       /\ t.y = year
       /\ t.m = month
       /\ rows[i].amt < 0

\* groupby("Категория")["Сумма платежа"].sum().abs().mul(0.01).round(2):
\* one entry per category of the rows, keys sorted, a missing key dropped
cashback_groupby(rows, idx) ==
    LET keys == {rows[idx[k]].cat : k \in 1..Len(idx)} \ {NoCategory}
        total(c) == SumSeq([k \in 1..Len(idx) |->
                        IF rows[idx[k]].cat = c THEN rows[idx[k]].amt ELSE 0])
        ranked == SelectIdx(Len(Categories), LAMBDA r : Categories[r] \in keys, <<>>)
    IN [k \in 1..Len(ranked) |->
          [category |-> Categories[ranked[k]],
           cashback |-> RoundHalfEven(Abs(total(Categories[ranked[k]])), 100)]]

\* a sort in ascending order
RECURSIVE sort_values_asc(_)
sort_values_asc(s) ==
    IF s = <<>> THEN <<>>
    ELSE LET rest == sort_values_asc(SubSeq(s, 1, Len(s) - 1))
             x == s[Len(s)]
             before == SelectSeq(rest, LAMBDA e : e.cashback <= x.cashback)
             after == SelectSeq(rest, LAMBDA e : e.cashback > x.cashback)
         IN before \o <<x>> \o after

\* sort_values(ascending=False): entries of equal value keep their order
RECURSIVE sort_values_desc(_)
sort_values_desc(s) ==
    IF s = <<>> THEN <<>>
    ELSE LET rest == sort_values_desc(SubSeq(s, 1, Len(s) - 1))
             x == s[Len(s)]
             before == SelectSeq(rest, LAMBDA e : e.cashback >= x.cashback)
             after == SelectSeq(rest, LAMBDA e : e.cashback < x.cashback)
         IN before \o <<x>> \o after

analyze_cashback_categories(data, year, month) ==
    IF required_columns \ data.cols # {}
    THEN Raise("ValueError")
    ELSE LET filtered == SelectIdx(Len(data.rows),
                             LAMBDA i : cashback_mask(data.rows, year, month, i), <<>>)
         IN IF filtered = <<>>
            THEN Return(<<>>)
            ELSE Return(sort_values_desc(cashback_groupby(data.rows, filtered)))

(***************************************************************************)
(* reports.py: _parse_date and _get_date_range                             *)
(***************************************************************************)
NoDate == [kind |-> "none", order |-> "", sep |-> "", y |-> 0, m |-> 0, d |-> 0, sec |-> 0]

formats == <<FmtDMY, FmtYMD, FmtDMYHMS, FmtYMDHMS>>

\* the loop of lines 95-99 from format k on: the first format that matches wins
RECURSIVE try_formats(_, _)
try_formats(date_str, k) ==
    IF k > Len(formats) THEN ValueError
    ELSE IF strptime(date_str, formats[k]).kind = "ts" THEN strptime(date_str, formats[k])
    ELSE try_formats(date_str, k + 1)

\* a parser whose list of formats lacks the two with a time part
parse_date_without_time_formats(date_str, now) ==
    IF date_str.kind = "none" THEN now
    ELSE IF strptime(date_str, FmtDMY).kind = "ts" THEN strptime(date_str, FmtDMY)
    ELSE IF strptime(date_str, FmtYMD).kind = "ts" THEN strptime(date_str, FmtYMD)
    ELSE now

_parse_date(date_str, now) ==
    IF date_str.kind = "none" THEN now
    ELSE IF try_formats(date_str, 1).kind = "ts" THEN try_formats(date_str, 1)
    ELSE now

OverflowError == [kind |-> "OverflowError", start |-> <<0, 0>>, end |-> <<0, 0>>]

DateRange(start, end) == [kind |-> "range", start |-> start, end |-> end]

DaysPerMonth == 30

\* a window of `months` days instead of months * 30 days
get_date_range_in_days(end_date, months) ==
    LET e == Instant(end_date)
        startDay == e[1] - months
    IN IF startDay < 1 \/ startDay > MaxOrdinal
       THEN OverflowError
       ELSE DateRange(<<startDay, e[2]>>, e)

\* end_date - timedelta(days=months * 30): datetime refuses a day outside
\* 0001-01-01 .. 9999-12-31
_get_date_range(end_date, months) ==
    LET e == Instant(end_date)
        startDay == e[1] - months * DaysPerMonth
    IN IF startDay < 1 \/ startDay > MaxOrdinal
       THEN OverflowError
       ELSE DateRange(<<startDay, e[2]>>, e)

(***************************************************************************)
(* reports.py: the three report functions.  A table is its set of columns  *)
(* and its rows; a returned table keeps, for each row, the index the row   *)
(* has in the input.                                                       *)
(***************************************************************************)
Frame(cols, rows) == [kind |-> "frame", cols |-> cols, rows |-> rows]

EmptyFrame == Frame({}, <<>>)

Mapping(v) == [kind |-> "dict", value |-> v]

EmptyMapping == Mapping(<<>>)

NoColumn == "None"

DateCell(row, col) == IF col = ColDate THEN row.date ELSE row.pdate

WithDateCell(row, col, v) ==
    IF col = ColDate THEN [row EXCEPT !.date = v] ELSE [row EXCEPT !.pdate = v]

\* the primary date column, else the fallback one
date_column(cols) ==
    IF ColDate \in cols THEN ColDate
    ELSE IF ColPayDate \in cols THEN ColPayDate
    ELSE NoColumn

\* the rows with the date column converted, each with its index in the input
converted(rows, col) ==
    [i \in 1..Len(rows) |->
        [idx |-> i, row |-> WithDateCell(rows[i], col, to_datetime(DateCell(rows[i], col)))]]

dropna(recs, col) == SelectSeq(recs, LAMBDA r : DateCell(r.row, col).kind = "ts")

\* a window that leaves its last instant out
date_mask_before_end(r, col, range) ==
    /\ InstLe(range.start, Instant(DateCell(r.row, col)))
    /\ InstLe(Instant(DateCell(r.row, col)), range.end)
    /\ Instant(DateCell(r.row, col)) # range.end

\* (df[date_column] >= start_date) & (df[date_column] <= end_date)
date_mask(r, col, range) ==
    /\ InstLe(range.start, Instant(DateCell(r.row, col)))
    /\ InstLe(Instant(DateCell(r.row, col)), range.end)

MonthsWindow == 3

spending_by_category(table, category, date, now) ==
    IF ~({ColAmount, ColCategory} \subseteq table.cols) THEN EmptyFrame
    ELSE LET target_date == _parse_date(date, now)
             range == _get_date_range(target_date, MonthsWindow)
             col == date_column(table.cols)
         IN IF range.kind = "OverflowError" THEN EmptyFrame   \* except Exception
            ELSE IF col = NoColumn THEN EmptyFrame
            ELSE LET df == dropna(converted(table.rows, col), col)
                     filtered == SelectSeq(df, LAMBDA r :
                                     r.row.cat = category /\ date_mask(r, col, range))
                 IN Frame(table.cols, SelectSeq(filtered, LAMBDA r : r.row.amt < 0))

\* the rows of the window, incomes and refunds included
window_rows_with_income(table, date, now) ==
    LET col == date_column(table.cols)
        df == dropna(converted(table.rows, col), col)
        range == _get_date_range(_parse_date(date, now), MonthsWindow)
    IN IF range.kind = "OverflowError" THEN OverflowError
       ELSE [kind |-> "rows", rows |-> SelectSeq(df, LAMBDA r : date_mask(r, col, range))]

\* the expense rows of the window, as lines 217-235 and 306-324 select them
window_expenses(table, date, now) ==
    LET col == date_column(table.cols)
        df == dropna(converted(table.rows, col), col)
        range == _get_date_range(_parse_date(date, now), MonthsWindow)
    IN IF range.kind = "OverflowError" THEN OverflowError
       ELSE [kind |-> "rows",
             rows |-> SelectSeq(SelectSeq(df, LAMBDA r : date_mask(r, col, range)),
                                LAMBDA r : r.row.amt < 0)]

dayofweek(ts) == (ToOrdinal(ts.y, ts.m, ts.d) + 6) % 7

days_map ==
    <<"Ponedelnik", "Vtornik", "Sreda", "Chetverg", "Pyatnitsa", "Subbota", "Voskresenye">>

\* a grouping that keeps the seven weekdays, the empty ones zero-filled
weekday_groups_zero_filled(rows, col) ==
    LET group(k) == SelectSeq(rows, LAMBDA r : dayofweek(DateCell(r.row, col)) = k - 1)
        total(k) == SumSeq([i \in 1..Len(group(k)) |-> Abs(group(k)[i].row.amt)])
    IN [k \in 1..7 |->
          [den_nedeli |-> k - 1,
           nazvanie_dnya |-> days_map[k],
           srednie_traty |-> IF group(k) = <<>> THEN 0
                             ELSE RoundHalfEven(total(k), Len(group(k))),
           obshchie_traty |-> total(k),
           kolichestvo_tranzaktsiy |-> Len(group(k))]]

\* groupby(["день_недели", "название_дня"]) with mean, sum and count of the
\* absolute amounts, rounded to 2 decimals; the groups come in key order
weekday_groups(rows, col) ==
    LET group(k) == SelectSeq(rows, LAMBDA r : dayofweek(DateCell(r.row, col)) = k - 1)
        days == SelectIdx(7, LAMBDA k : group(k) # <<>>, <<>>)
        total(k) == SumSeq([i \in 1..Len(group(k)) |-> Abs(group(k)[i].row.amt)])
    IN [g \in 1..Len(days) |->
          [den_nedeli |-> days[g] - 1,
           nazvanie_dnya |-> days_map[days[g]],
           srednie_traty |-> RoundHalfEven(total(days[g]), Len(group(days[g]))),
           obshchie_traty |-> total(days[g]),
           kolichestvo_tranzaktsiy |-> Len(group(days[g]))]]

WeekdayColumns ==
    {"den_nedeli", "nazvanie_dnya", "srednie_traty", "obshchie_traty", "kolichestvo_tranzaktsiy"}

spending_by_weekday(table, date, now) ==
    IF ColAmount \notin table.cols THEN EmptyFrame
    ELSE IF date_column(table.cols) = NoColumn THEN EmptyFrame
    ELSE LET w == window_expenses(table, date, now)
         IN IF w.kind = "OverflowError" THEN EmptyFrame       \* except Exception
            ELSE IF w.rows = <<>> THEN EmptyFrame
            ELSE Frame(WeekdayColumns, weekday_groups(w.rows, date_column(table.cols)))

\* a partition in which only Sunday is a weekend day and Saturday is no day
day_type_stats_without_saturday(rows, col, weekend) ==
    LET group == SelectSeq(rows, LAMBDA r :
                    IF weekend THEN dayofweek(DateCell(r.row, col)) = 6
                    ELSE dayofweek(DateCell(r.row, col)) < 5)
        total == SumSeq([i \in 1..Len(group) |-> Abs(group[i].row.amt)])
        unique_days == Cardinality({Instant(DateCell(group[i].row, col))[1] : i \in 1..Len(group)})
    IN IF group = <<>>
       THEN [total_spent |-> 0, avg_spent_per_day |-> 0, avg_spent_per_transaction |-> 0,
             transaction_count |-> 0, days_count |-> 0]
       ELSE [total_spent |-> total,
             avg_spent_per_day |-> RoundHalfEven(total, unique_days),
             avg_spent_per_transaction |-> RoundHalfEven(total, Len(group)),
             transaction_count |-> Len(group),
             days_count |-> unique_days]

\* a partition whose days are counted once for each of its rows
day_type_stats_days_as_rows(rows, col, weekend) ==
    LET group == SelectSeq(rows, LAMBDA r : (dayofweek(DateCell(r.row, col)) >= 5) = weekend)
        total == SumSeq([i \in 1..Len(group) |-> Abs(group[i].row.amt)])
    IN IF group = <<>>
       THEN [total_spent |-> 0, avg_spent_per_day |-> 0, avg_spent_per_transaction |-> 0,
             transaction_count |-> 0, days_count |-> 0]
       ELSE [total_spent |-> total,
             avg_spent_per_day |-> RoundHalfEven(total, Len(group)),
             avg_spent_per_transaction |-> RoundHalfEven(total, Len(group)),
             transaction_count |-> Len(group),
             days_count |-> Len(group)]

\* one partition of lines 359-373
day_type_stats(rows, col, weekend) ==
    LET group == SelectSeq(rows, LAMBDA r : (dayofweek(DateCell(r.row, col)) >= 5) = weekend)
        total == SumSeq([i \in 1..Len(group) |-> Abs(group[i].row.amt)])
        unique_days == Cardinality({Instant(DateCell(group[i].row, col))[1] : i \in 1..Len(group)})
    IN IF group = <<>>
       THEN [total_spent |-> 0, avg_spent_per_day |-> 0, avg_spent_per_transaction |-> 0,
             transaction_count |-> 0, days_count |-> 0]
       ELSE [total_spent |-> total,
             avg_spent_per_day |-> RoundHalfEven(total, unique_days),
             avg_spent_per_transaction |-> RoundHalfEven(total, Len(group)),
             transaction_count |-> Len(group),
             days_count |-> unique_days]

\* the comparison block of lines 387-441; the ratio and the shares are in
\* hundredths (shares: hundredths of a percent, written with a % sign)
comparison(workday, weekend) ==
    LET both == workday.total_spent + weekend.total_spent
    IN [sootnoshenie_rabochie_k_vyhodnym |->
            IF weekend.avg_spent_per_day > 0
            THEN RoundHalfEven(100 * workday.avg_spent_per_day, weekend.avg_spent_per_day)
            ELSE 0,
        dolya_rabochih_dney_v_tratah |->
            IF both > 0 THEN RoundHalfEven(10000 * workday.total_spent, both) ELSE 0,
        dolya_vyhodnyh_dney_v_tratah |->
            IF both > 0 THEN RoundHalfEven(10000 * weekend.total_spent, both) ELSE 0]

\* the value of lines 328-342
NoExpensesMapping ==
    Mapping([workday |-> [total_spent |-> 0, avg_spent |-> 0, transactions |-> 0, days |-> 0],
             weekend |-> [total_spent |-> 0, avg_spent |-> 0, transactions |-> 0, days |-> 0],
             comparison |-> [workday_vs_weekend_ratio |-> 0]])

\* a handler that raises again what it caught, as services.py does
spending_by_workday_reraising(table, date, now) ==
    IF ColAmount \notin table.cols THEN Raise("KeyError")
    ELSE IF date_column(table.cols) = NoColumn THEN EmptyMapping
    ELSE LET w == window_expenses(table, date, now)
         IN IF w.kind = "OverflowError" THEN Raise("OverflowError")
            ELSE NoExpensesMapping

spending_by_workday(table, date, now) ==
    IF ColAmount \notin table.cols THEN EmptyMapping
    ELSE IF date_column(table.cols) = NoColumn THEN EmptyMapping
    ELSE LET w == window_expenses(table, date, now)
             col == date_column(table.cols)
         IN IF w.kind = "OverflowError" THEN EmptyMapping     \* except Exception
            ELSE IF w.rows = <<>> THEN NoExpensesMapping
            ELSE LET workday == day_type_stats(w.rows, col, FALSE)
                     weekend == day_type_stats(w.rows, col, TRUE)
                 IN Mapping([rabochie_dni |-> workday,
                             vyhodnye_dni |-> weekend,
                             sravnenie |-> comparison(workday, weekend)])

(***************************************************************************)
(* reports.py: report_to_file, the wrapper of the report functions.  The   *)
(* reports directory is whether it exists and its files: a function from   *)
(* file name to content.  A file name is its parts; its extension is its   *)
(* sequence of suffixes.                                                   *)
(***************************************************************************)
Directory(exists, files) == [exists |-> exists, files |-> files]

\* a directory without files
NoFiles == [name \in {} |-> 0]

\* the decorator's argument: None, or a name and its suffixes
NoFilename == [given |-> FALSE, stem |-> "", ext |-> <<>>]

Filename(stem, ext) == [given |-> TRUE, stem |-> stem, ext |-> ext]

\* report_<function>_<%Y%m%d_%H%M%S>.json
default_filename(func_name, now) ==
    [prefix |-> "report", stem |-> func_name,
     stamp |-> <<now.y, now.m, now.d, now.sec>>, ext |-> <<".json">>]

\* a name that gets `.json` appended whatever it ends in
output_filename_always_suffixed(filename, func_name, now) ==
    IF ~filename.given THEN default_filename(func_name, now)
    ELSE [prefix |-> "", stem |-> filename.stem, stamp |-> <<>>,
          ext |-> Append(filename.ext, ".json")]

\* lines 29-37
output_filename(filename, func_name, now) ==
    IF ~filename.given THEN default_filename(func_name, now)
    ELSE [prefix |-> "", stem |-> filename.stem, stamp |-> <<>>,
          ext |-> IF filename.ext # <<>> /\ filename.ext[Len(filename.ext)] = ".json"
                  THEN filename.ext
                  ELSE Append(filename.ext, ".json")]

\* Python values of a mapping or a sequence, each with its type; a text that
\* renders a number or a date is its format and what it renders
Str(s) == [type |-> "str", text |-> s, num |-> 0, at |-> <<>>]

Num(n) == [type |-> "int", text |-> "", num |-> n, at |-> <<>>]

None == [type |-> "NoneType", text |-> "", num |-> 0, at |-> <<>>]

Datetime(y, m, d, sec) == [type |-> "datetime", text |-> "", num |-> 0, at |-> <<y, m, d, sec>>]

\* str(value)
str(v) ==
    IF v.type = "str" THEN v
    ELSE IF v.type = "int" THEN [type |-> "str", text |-> "%d", num |-> v.num, at |-> <<>>]
    ELSE IF v.type = "datetime"
    THEN [type |-> "str", text |-> "%Y-%m-%d %H:%M:%S", num |-> 0, at |-> v.at]
    ELSE [type |-> "str", text |-> "None", num |-> 0, at |-> <<>>]

\* a mapping or a sequence given by its items
Items(kind, items) == [kind |-> kind, value |-> items]

\* any other result: a Python value
Other(v) == [kind |-> "other", value |-> v]

\* a rendering that keeps the time of day: `YYYY-MM-DD HH:MM:SS`
strftime_iso(ts) == Text("ymd", "-", ts.y, ts.m, ts.d, ts.sec)

\* strftime("%d.%m.%Y")
strftime_dmy(ts) == Text("dmy", ".", ts.y, ts.m, ts.d, NoTime)

\* a missing cell of a text column is NaN and stays what it is
json_cell(v) == IF v.kind = "ts" THEN strftime_dmy(v) ELSE v

\* to_dict(orient="records") with every datetime written as DD.MM.YYYY
json_record(r) ==
    IF "row" \in DOMAIN r
    THEN [r EXCEPT !.row.date = json_cell(r.row.date), !.row.pdate = json_cell(r.row.pdate)]
    ELSE r

\* json.dump(..., default=str) of one value: what JSON cannot write is
\* written as its text
json_default(v) == IF v.type \in {"str", "int", "NoneType"} THEN v ELSE str(v)

\* the content of the artifact, lines 42-67
serialized(result) ==
    IF result.kind = "frame"
    THEN [format |-> "json", top |-> "records",
          value |-> [i \in 1..Len(result.rows) |-> json_record(result.rows[i])]]
    ELSE IF result.kind = "dict"
    THEN [format |-> "json", top |-> "object", value |-> result.value]
    ELSE IF result.kind \in {"dict items", "list"}
    THEN [format |-> "json", top |-> result.kind,
          value |-> [i \in 1..Len(result.value) |->
                        [result.value[i] EXCEPT !.value = json_default(@)]]]
    ELSE [format |-> "text", top |-> "str", value |-> str(result.value)]

\* a file that was opened for writing and not written to its end
Truncated == [format |-> "truncated", top |-> "", value |-> <<>>]

\* a failure of the artifact: of mkdir, of the serialization, of the write
Faults == {"none", "mkdir", "serialize", "write"}

\* a wrapper that lets the failure of the artifact reach the caller
report_to_file_reraising(dir, filename, func_name, result, now, fault) ==
    IF result.kind = "raise" THEN [dir |-> dir, out |-> result]
    ELSE IF fault = "none"
    THEN [dir |-> Directory(TRUE, (output_filename(filename, func_name, now)
                                      :> serialized(result)) @@ dir.files),
          out |-> result]
    ELSE [dir |-> dir, out |-> Raise("OSError")]

\* a wrapper that opens the artifact before it calls the function
report_to_file_opening_first(dir, filename, func_name, result, now, fault) ==
    LET name == output_filename(filename, func_name, now)
    IN IF result.kind = "raise" \/ fault # "none"
       THEN [dir |-> Directory(TRUE, (name :> Truncated) @@ dir.files), out |-> result]
       ELSE [dir |-> Directory(TRUE, (name :> serialized(result)) @@ dir.files),
             out |-> result]

\* a wrapper that empties the directory before it writes
report_to_file_clearing(dir, filename, func_name, result, now, fault) ==
    IF result.kind = "raise" \/ fault # "none" THEN [dir |-> dir, out |-> result]
    ELSE [dir |-> Directory(TRUE, output_filename(filename, func_name, now)
                                     :> serialized(result)),
          out |-> result]

\* the wrapper, lines 19-76: the directory after the call and what the caller
\* gets.  A table is serialized before its file is opened, every other
\* result while its file is open
report_to_file(dir, filename, func_name, result, now, fault) ==
    LET name == output_filename(filename, func_name, now)
    IN IF result.kind = "raise" THEN [dir |-> dir, out |-> result]
       ELSE IF fault = "mkdir" THEN [dir |-> dir, out |-> result]
       ELSE IF fault = "serialize" /\ result.kind = "frame"
       THEN [dir |-> Directory(TRUE, dir.files), out |-> result]
       ELSE IF fault \in {"serialize", "write"}
       THEN [dir |-> Directory(TRUE, (name :> Truncated) @@ dir.files), out |-> result]
       ELSE [dir |-> Directory(TRUE, (name :> serialized(result)) @@ dir.files),
             out |-> result]

(***************************************************************************)
(* utils.py: get_greeting and filter_transactions_by_date.                 *)
(***************************************************************************)
\* a greeting whose morning starts at six
get_greeting_morning_from_six(date) ==
    LET hour == date.sec \div 3600
    IN IF 6 <= hour /\ hour < 12 THEN "Dobroe utro"
       ELSE IF 12 <= hour /\ hour < 18 THEN "Dobryy den"
       ELSE IF 18 <= hour /\ hour < 23 THEN "Dobryy vecher"
       ELSE "Dobroy nochi"

get_greeting(date) ==
    LET hour == date.sec \div 3600
    IN IF 5 <= hour /\ hour < 12 THEN "Dobroe utro"
       ELSE IF 12 <= hour /\ hour < 18 THEN "Dobryy den"
       ELSE IF 18 <= hour /\ hour < 23 THEN "Dobryy vecher"
       ELSE "Dobroy nochi"

\* date.replace(day=1, hour=0, minute=0, second=0, microsecond=0)
start_of_month(date) == Timestamp(date.y, date.m, 1, 0)

\* a filter from the as-of day's midnight instead of the month's first day
filter_transactions_from_midnight(rows, date) ==
    LET mask(r) == /\ r.row.date.kind = "ts"
                   /\ InstLe(Instant(Timestamp(date.y, date.m, date.d, 0)), Instant(r.row.date))
                   /\ InstLe(Instant(r.row.date), Instant(date))
    IN SelectSeq([i \in 1..Len(rows) |-> [idx |-> i, row |-> rows[i]]], mask)

\* the rows of the mask, each with its index in the input; a comparison with
\* NaT is false
filter_transactions_by_date(rows, date) ==
    LET mask(r) == /\ r.row.date.kind = "ts"
                   /\ InstLe(Instant(start_of_month(date)), Instant(r.row.date))
                   /\ InstLe(Instant(r.row.date), Instant(date))
    IN SelectSeq([i \in 1..Len(rows) |-> [idx |-> i, row |-> rows[i]]], mask)

(***************************************************************************)
(* views.py: the helpers of the dashboard.  A row of the loaded table has  *)
(* its operation date, its card identifier (a sequence of characters), its *)
(* amount `Сумма операции` in kopecks, its category and its description.   *)
(***************************************************************************)
ViewRow(date, card, amt, cat, desc) ==
    [date |-> date, card |-> card, amt |-> amt, cat |-> cat, desc |-> desc]

\* a missing card identifier
NoCard == <<"NaN">>

\* df["Номер карты"].unique(): the values in order of first appearance
RECURSIVE unique(_, _)
unique(rows, seen) ==
    IF rows = <<>> THEN seen
    ELSE unique(Tail(rows),
                IF \E k \in 1..Len(seen) : seen[k] = Head(rows).card
                THEN seen ELSE Append(seen, Head(rows).card))

\* str(card_number).replace("*", "")[-4:]
last_digits(card) ==
    LET digits == SelectSeq(card, LAMBDA c : c # "*")
    IN IF Len(digits) <= 4 THEN digits ELSE SubSeq(digits, Len(digits) - 3, Len(digits))

\* a summary in which the positive amounts of a card reduce what it spent
card_entry_net(rows, card) ==
    LET net == SumSeq([i \in 1..Len(rows) |-> IF rows[i].card = card THEN rows[i].amt ELSE 0])
    IN [last_digits |-> last_digits(card),
        total_spent |-> Abs(net),
        cashback |-> RoundHalfEven(Abs(net), 100)]

\* lines 86-103
card_entry(rows, card) ==
    LET expenses == SumSeq([i \in 1..Len(rows) |->
                        IF rows[i].card = card /\ rows[i].amt < 0 THEN rows[i].amt ELSE 0])
    IN [last_digits |-> last_digits(card),
        total_spent |-> Abs(expenses),
        cashback |-> RoundHalfEven(Abs(expenses), 100)]

get_cards_info(rows) ==
    IF rows = <<>> THEN <<>>
    ELSE LET cards == SelectSeq(unique(rows, <<>>), LAMBDA c : c # NoCard /\ c # <<>>)
         IN [k \in 1..Len(cards) |-> card_entry(rows, cards[k])]

TopN == 5

\* the first rows of the table, whatever their amounts
first_rows(n, rows) == SubSeq(rows, 1, IF Len(rows) < n THEN Len(rows) ELSE n)

\* the first n rows in the order of nlargest: by absolute amount, largest
\* first, rows of one amount in the order of the table
RECURSIVE nlargest(_, _)
nlargest(n, rows) ==
    IF n = 0 \/ rows = <<>> THEN <<>>
    ELSE LET best == CHOOSE i \in 1..Len(rows) :
                        /\ \A j \in 1..Len(rows) : Abs(rows[j].amt) <= Abs(rows[i].amt)
                        /\ \A j \in 1..(i - 1) : Abs(rows[j].amt) < Abs(rows[i].amt)
         IN <<rows[best]>> \o nlargest(n - 1, SubSeq(rows, 1, best - 1)
                                              \o SubSeq(rows, best + 1, Len(rows)))

get_top_transactions(rows) ==
    IF rows = <<>> THEN <<>>
    ELSE LET expenses == SelectSeq(rows, LAMBDA r : r.amt < 0)
             top_5 == nlargest(TopN, expenses)
         IN [k \in 1..Len(top_5) |->
               [date |-> strftime_dmy(top_5[k].date),
                amount |-> Abs(top_5[k].amt),
                category |-> top_5[k].cat,
                description |-> top_5[k].desc]]

\* the categories of the dashboard, in the key order of groupby
ViewCategories == <<"Apteki", "Eda", "Razvlecheniya", "Transport">>

TopCategories == 3

\* Series.head(n)
head(n, s) == SubSeq(s, 1, IF Len(s) < n THEN Len(s) ELSE n)

\* groupby("Категория")["abs_sum"].sum().sort_values(ascending=False): the
\* sort is not stable, categories of one sum come in key order or against it
RECURSIVE sorted_categories(_, _)
sorted_categories(sums, ties) ==
    IF sums = <<>> THEN <<>>
    ELSE LET best == CHOOSE i \in 1..Len(sums) :
                        /\ \A j \in 1..Len(sums) : sums[j].amount <= sums[i].amount
                        /\ IF ties = "first"
                           THEN \A j \in 1..(i - 1) : sums[j].amount < sums[i].amount
                           ELSE \A j \in (i + 1)..Len(sums) : sums[j].amount < sums[i].amount
         IN <<sums[best]>> \o sorted_categories(SubSeq(sums, 1, best - 1)
                                                   \o SubSeq(sums, best + 1, Len(sums)), ties)

\* a summary over all rows, incomes included
get_expenses_info_of_all_rows(rows, ties) ==
    IF rows = <<>> THEN [total |-> 0, average |-> 0, by_category |-> <<>>]
    ELSE LET total == SumSeq([i \in 1..Len(rows) |-> Abs(rows[i].amt)])
         IN [total |-> total, average |-> RoundHalfEven(total, Len(rows)),
             by_category |-> <<>>]

get_expenses_info(rows, ties) ==
    IF rows = <<>> THEN [total |-> 0, average |-> 0, by_category |-> <<>>]
    ELSE LET expenses == SelectSeq(rows, LAMBDA r : r.amt < 0)
             total_expenses == SumSeq([i \in 1..Len(expenses) |-> Abs(expenses[i].amt)])
             sum_of(c) == SumSeq([i \in 1..Len(expenses) |->
                              IF expenses[i].cat = c THEN Abs(expenses[i].amt) ELSE 0])
             groups == SelectSeq([k \in 1..Len(ViewCategories) |->
                                    [category |-> ViewCategories[k],
                                     amount |-> sum_of(ViewCategories[k])]],
                                 LAMBDA g : \E i \in 1..Len(expenses) : expenses[i].cat = g.category)
             category_expenses == sorted_categories(groups, ties)
         IN [total |-> total_expenses,
             average |-> IF expenses = <<>> THEN 0
                         ELSE RoundHalfEven(total_expenses, Len(expenses)),
             by_category |-> head(TopCategories, category_expenses)]

(***************************************************************************)
(* utils.py: the lookups of the dashboard.  A response is what the request *)
(* of one lookup meets: no API key, a failed request, or a payload in      *)
(* which the value is absent, a number, a text that is no number, or in    *)
(* which the section that holds the values is null.                        *)
(***************************************************************************)
Float(n) == [type |-> "float", text |-> "", num |-> n, at |-> <<>>]

Response(kind, value) == [kind |-> kind, value |-> value]

\* the rate of the payload is in ten-thousandths, and so is the result,
\* round(1 / rate, 4)
get_exchange_rate(response) ==
    IF response.kind \in {"no_key", "RequestException", "absent"} THEN Return(None)
    ELSE IF response.kind = "null_section" THEN Raise("AttributeError")
    ELSE IF response.kind = "text" THEN Raise("TypeError")
    ELSE IF response.value = 0 THEN Return(None)
    ELSE Return(Float(RoundHalfEven(10000 * 10000, response.value)))

\* the price of the payload is a text of a number, in hundredths when it is
\* one; float() of another text is a ValueError, which is caught
get_stock_price(response) ==
    IF response.kind \in {"no_key", "RequestException", "absent"} THEN Return(None)
    ELSE IF response.kind = "null_section" THEN Raise("AttributeError")
    ELSE IF response.kind = "text" THEN Return(None)
    ELSE Return(Float(response.value))

\* `if rate:`
truthy(v) == v.type = "float" /\ v.num # 0

\* the first call of a loop that raises, 0 when none does
first_raised(results) ==
    IF \E k \in 1..Len(results) : results[k].kind = "raise"
    THEN CHOOSE k \in 1..Len(results) :
            /\ results[k].kind = "raise"
            /\ \A j \in 1..(k - 1) : results[j].kind # "raise"
    ELSE 0

\* the outcome of the loop and the symbols it looked up, in order
get_currency_rates(currencies, responses) ==
    LET results == [k \in 1..Len(currencies) |-> get_exchange_rate(responses[k])]
        stop == first_raised(results)
        rates == [k \in 1..Len(currencies) |->
                    [currency |-> currencies[k], rate |-> results[k].value]]
    IN IF stop = 0
       THEN [out |-> Return(SelectSeq(rates, LAMBDA e : truthy(e.rate))),
             looked |-> currencies]
       ELSE [out |-> results[stop], looked |-> SubSeq(currencies, 1, stop)]

get_stock_prices(stocks, responses) ==
    LET results == [k \in 1..Len(stocks) |-> get_stock_price(responses[k])]
        stop == first_raised(results)
        prices == [k \in 1..Len(stocks) |->
                     [stock |-> stocks[k], price |-> results[k].value]]
    IN IF stop = 0
       THEN [out |-> Return(SelectSeq(prices, LAMBDA e : truthy(e.price))),
             looked |-> stocks]
       ELSE [out |-> results[stop], looked |-> SubSeq(stocks, 1, stop)]

(***************************************************************************)
(* views.py: main_page_view, and its collaborators of utils.py.            *)
(***************************************************************************)
ColCard == "Nomer karty"

ColOperationAmount == "Summa operatsii"

ColDescription == "Opisanie"

ExcelFile(exists, columns, dtype, rows) ==
    [exists |-> exists, columns |-> columns, dtype |-> dtype, rows |-> rows]

EmptyDataFrame == [columns |-> {}, dtype |-> "", rows |-> <<>>]

\* any failure of the reading, a missing file or a missing date or amount
\* column, gives the empty table
read_transactions_from_excel(file) ==
    IF file.exists /\ {ColDate, ColOperationAmount} \subseteq file.columns
    THEN [columns |-> file.columns, dtype |-> file.dtype, rows |-> file.rows]
    ELSE EmptyDataFrame

SettingsFile(kind, keys, currencies, stocks) ==
    [kind |-> kind, keys |-> keys, user_currencies |-> currencies, user_stocks |-> stocks]

DefaultSettings == SettingsFile("dict", {"user_currencies", "user_stocks"}, <<"USD">>, <<"AAPL">>)

\* the settings file is missing, holds no JSON, cannot be opened, or holds
\* a JSON value, an object or a list
get_user_settings(file) ==
    IF file.kind \in {"FileNotFoundError", "JSONDecodeError"} THEN Return(DefaultSettings)
    ELSE IF file.kind = "PermissionError" THEN Raise("PermissionError")
    ELSE Return(file)

\* settings.get(key, []) of the settings that main_page_view gets
user_currencies(file) ==
    LET settings == get_user_settings(file)
    IN IF settings.kind = "return" /\ settings.value.kind = "dict"
          /\ "user_currencies" \in settings.value.keys
       THEN settings.value.user_currencies ELSE <<>>

user_stocks(file) ==
    LET settings == get_user_settings(file)
    IN IF settings.kind = "return" /\ settings.value.kind = "dict"
          /\ "user_stocks" \in settings.value.keys
       THEN settings.value.user_stocks ELSE <<>>

ErrorObject(message) == [error |-> message]

\* lines 30-56: what the try block returns or raises, and the symbols looked
\* up on the way.  json.dumps cannot write the numpy integers that the sums
\* of an integer column are.
main_page_view_body(date_str, file, settings_file, rate_responses, price_responses, ties) ==
    LET parsed == strptime(date_str, FmtYMDHMS)
        current_date == IF parsed.kind = "ts" THEN Return(parsed) ELSE Raise("ValueError")
        df == read_transactions_from_excel(file)
        filtered == filter_transactions_by_date(df.rows, current_date.value)
        filtered_df == [k \in 1..Len(filtered) |-> filtered[k].row]
        settings == get_user_settings(settings_file)
        rates == get_currency_rates(user_currencies(settings_file), rate_responses)
        prices == get_stock_prices(user_stocks(settings_file), price_responses)
    IN IF current_date.kind = "raise" THEN [out |-> current_date, looked |-> <<>>]
       ELSE IF df.rows = <<>>
       THEN [out |-> Return(ErrorObject("Net dannykh o tranzaktsiyakh")), looked |-> <<>>]
       ELSE IF settings.kind = "raise" THEN [out |-> settings, looked |-> <<>>]
       ELSE IF filtered_df # <<>>
               /\ ~({ColCard, ColCategory, ColDescription} \subseteq df.columns)
       THEN [out |-> Raise("KeyError"), looked |-> <<>>]
       ELSE IF settings.value.kind # "dict"
       THEN [out |-> Raise("AttributeError"), looked |-> <<>>]
       ELSE IF rates.out.kind = "raise" THEN rates
       ELSE IF prices.out.kind = "raise"
       THEN [out |-> prices.out, looked |-> rates.looked \o prices.looked]
       ELSE IF filtered_df # <<>> /\ df.dtype = "int64"
       THEN [out |-> Raise("TypeError"), looked |-> rates.looked \o prices.looked]
       ELSE [out |-> Return([greeting |-> get_greeting(current_date.value),
                             cards |-> get_cards_info(filtered_df),
                             top_transactions |-> get_top_transactions(filtered_df),
                             currency_rates |-> rates.out.value,
                             stock_prices |-> prices.out.value,
                             expenses |-> get_expenses_info(filtered_df, ties)]),
             looked |-> rates.looked \o prices.looked]

\* an entry point without the handlers of lines 58-63
main_page_view_unhandled(date_str, file, settings_file, rate_responses, price_responses, ties) ==
    main_page_view_body(date_str, file, settings_file, rate_responses, price_responses, ties)

main_page_view(date_str, file, settings_file, rate_responses, price_responses, ties) ==
    LET body == main_page_view_body(date_str, file, settings_file, rate_responses,
                                    price_responses, ties)
    IN IF body.out.kind # "raise" THEN body
       ELSE IF body.out.exc = "ValueError"
       THEN [out |-> Return(ErrorObject("Nevernyy format daty")), looked |-> body.looked]
       ELSE [out |-> Return(ErrorObject("Vnutrennyaya oshibka servera")),
             looked |-> body.looked]

\* reports.py, lines 457-522: utils.py defines no read_excel_file, the import
\* of line 458 raises ImportError and the handler returns its message
get_report_by_category(file_path, category, date) ==
    LET body == Raise("ImportError")
    IN IF body.kind = "raise" THEN Return(ErrorObject(body.exc)) ELSE body

(***************************************************************************)
(* The table a call is given and the frame the call assigns to.            *)
(***************************************************************************)
ReportOps == {"spending_by_category", "spending_by_weekday", "spending_by_workday"}

\* df[col] = pd.to_datetime(df[col], format="%d.%m.%Y", errors="coerce")
set_dates(frame, col) ==
    [cols |-> frame.cols,
     rows |-> [i \in 1..Len(frame.rows) |->
                 WithDateCell(frame.rows[i], col, to_datetime(DateCell(frame.rows[i], col)))]]

\* expenses["abs_sum"] = ...
set_column(frame, col) == [cols |-> frame.cols \cup {col}, rows |-> frame.rows]

\* the assignments of a call to the frame it works on: the report functions
\* convert the date column unless it holds timestamps only, the cashback
\* analyser converts it after its column check, two dashboard helpers add a
\* column to a table that is not empty, the others assign nothing
assigned(op, frame) ==
    IF op \in ReportOps
    THEN IF /\ ColAmount \in frame.cols
            /\ (op = "spending_by_category" => ColCategory \in frame.cols)
            /\ date_column(frame.cols) # NoColumn
            /\ \E i \in 1..Len(frame.rows) :
                  DateCell(frame.rows[i], date_column(frame.cols)).kind = "text"
         THEN set_dates(frame, date_column(frame.cols))
         ELSE frame
    ELSE IF op = "analyze_cashback_categories"
    THEN IF required_columns \subseteq frame.cols THEN set_dates(frame, ColDate) ELSE frame
    ELSE IF op \in {"get_top_transactions", "get_expenses_info"}
    THEN IF frame.rows # <<>> THEN set_column(frame, "abs_sum") ELSE frame
    ELSE frame

\* a call that assigns to the table it is given
working_frame_is_given(op) == "given"

\* the frame a call assigns to is the copy it makes first: transactions.copy()
\* (reports.py), data.copy() or pd.DataFrame(data) (services.py),
\* df[...].copy() (views.py), df.loc[mask].copy() (utils.py)
working_frame(op) == "copy"

\* the caller's table after the call
after_call(op, table) ==
    LET heap == [given |-> table, copy |-> table]
        written == [heap EXCEPT ![working_frame(op)] = assigned(op, heap[working_frame(op)])]
    IN written.given

(***************************************************************************)
(* The inputs of the cashback analyser.                                    *)
(***************************************************************************)
CashbackRows ==
    { \* the records of tests/test_services.py: `YYYY-MM-DD HH:MM:SS` texts
      Row(Text("ymd", "-", 2024, 1, 15, Hms(10, 30, 0)), NaT, "Supermarkety", -150050, 1501),
      Row(Text("ymd", "-", 2024, 1, 20, Hms(15, 45, 0)), NaT, "Kafe i restorany", -80000, 800),
      Row(Text("ymd", "-", 2024, 1, 25, Hms(9, 15, 0)), NaT, "Supermarkety", -50025, 500),
      \* `DD.MM.YYYY` texts and typed timestamps
      Row(Text("dmy", ".", 2024, 1, 15, NoTime), NaT, "Supermarkety", -150050, 1501),
      Row(Timestamp(2024, 1, 25, Hms(9, 15, 0)), NaT, "Supermarkety", -50025, 0),
      Row(Timestamp(2024, 1, 20, Hms(15, 45, 0)), NaT, "Kafe i restorany", -80000, 800),
      Row(Text("dmy", ".", 2024, 2, 5, NoTime), NaT, "Transport", -30000, 300),
      Row(Text("dmy", ".", 2024, 1, 20, NoTime), NaT, "Transport", 5000000, 0),
      Row(Text("dmy", ".", 2024, 1, 31, NoTime), NaT, "Kafe i restorany", 0, 0),
      Row(Timestamp(2023, 1, 20, 0), NaT, NoCategory, -12350, 123) }

\* pd.DataFrame([]): a list without records has no columns
EmptyRecordList == [cols |-> {}, rows |-> <<>>]

CashbackColumns ==
    { {ColDate, ColCategory, ColAmount, ColCashback},
      {ColDate, ColCategory, ColAmount, ColCashbackTests},
      {ColDate, ColCategory, ColAmount},
      {ColCategory, ColAmount, ColCashback},
      {ColDate, ColAmount, ColCashback},
      {ColDate, ColCategory, ColCashback} }

CashbackYears == {2023, 2024}

CashbackMonths == {1, 2}

(***************************************************************************)
(* The inputs of the report functions.  The as-of dates are around         *)
(* 20.12.2024, whose 90-day window starts on 21.09.2024.                   *)
(***************************************************************************)
MaxTableRows == 2

ReportRows ==
    { \* the first and the last day of the window, as texts and with a time of day
      Row(Text("dmy", ".", 2024, 9, 21, NoTime), Text("dmy", ".", 2024, 9, 23, NoTime),
          "Supermarkety", -10050, 0),
      Row(Timestamp(2024, 9, 21, Hms(10, 30, 0)), NaT, "Supermarkety", -5000, 0),
      Row(Text("dmy", ".", 2024, 12, 20, NoTime), Text("dmy", ".", 2024, 12, 20, NoTime),
          "Supermarkety", -20000, 0),
      Row(Timestamp(2024, 12, 20, Hms(10, 30, 0)), Timestamp(2024, 12, 21, 0),
          "Supermarkety", -15030, 0),
      \* the days next to the window
      Row(Text("dmy", ".", 2024, 9, 20, NoTime), Text("dmy", ".", 2024, 9, 21, NoTime),
          "Supermarkety", -8020, 0),
      Row(Text("dmy", ".", 2024, 12, 21, NoTime), Text("dmy", ".", 2024, 12, 21, NoTime),
          "Supermarkety", -700, 0),
      \* another category, an income, a date the column conversion rejects
      Row(Text("dmy", ".", 2024, 11, 1, NoTime), Text("dmy", ".", 2024, 11, 2, NoTime),
          "Kafe i restorany", -25075, 0),
      Row(Text("dmy", ".", 2024, 11, 15, NoTime), Text("dmy", ".", 2024, 11, 15, NoTime),
          "Supermarkety", 5000, 0),
      Row(Text("ymd", "-", 2024, 11, 15, NoTime), Text("dmy", ".", 2024, 11, 15, Hms(8, 0, 0)),
          "Supermarkety", -100, 0) }

ReportColumns ==
    { {ColDate, ColPayDate, ColCategory, ColAmount},
      {ColPayDate, ColCategory, ColAmount},
      {ColCategory, ColAmount},
      {ColDate, ColPayDate, ColCategory},
      {ColDate, ColPayDate, ColAmount} }

\* a table that lacks a column is given up before any of its rows is read:
\* one row stands for its rows.  pd.DataFrame() has neither columns nor rows
ReportTables ==
    [cols : {c \in ReportColumns : ColAmount \in c /\ ColCategory \in c /\ ColPayDate \in c},
     rows : SeqsUpTo(ReportRows, MaxTableRows)]
        \cup [cols : ReportColumns, rows : SeqsUpTo(ReportRows, 1)]
        \cup {[cols |-> {}, rows |-> <<>>]}

ReportCategories == {"Supermarkety", "Apteki"}

DateArgs ==
    { NoDate,
      Text("dmy", ".", 2024, 12, 20, NoTime),
      Text("ymd", "-", 2024, 12, 20, NoTime),
      Text("dmy", ".", 2024, 12, 20, Hms(12, 0, 0)),
      Text("ymd", "-", 2024, 12, 20, Hms(12, 0, 0)),
      \* `2024.12.20`, `31.11.2024`: no format matches
      Text("ymd", ".", 2024, 12, 20, NoTime),
      Text("dmy", ".", 2024, 11, 31, NoTime),
      \* `01.01.0001`: 90 days earlier is no date
      Text("dmy", ".", 1, 1, 1, NoTime) }

Clock == {Timestamp(2024, 12, 20, Hms(15, 0, 0))}

NoCall == [op |-> "", category |-> "", date |-> NoDate]

(***************************************************************************)
(* The inputs of _get_date_range.                                          *)
(***************************************************************************)
MaxMonths == 6

EndDates ==
    { Timestamp(2024, 12, 31, 0), Timestamp(2024, 12, 20, Hms(15, 0, 0)),
      Timestamp(2024, 3, 1, 0), Timestamp(2023, 3, 1, Hms(23, 59, 59)),
      Timestamp(2000, 2, 29, 0), Timestamp(1900, 3, 1, 0),
      Timestamp(1, 1, 1, 0), Timestamp(1, 3, 31, 0), Timestamp(1, 4, 1, 0),
      Timestamp(9999, 12, 31, Hms(23, 59, 59)), Timestamp(9999, 10, 2, 0) }

(***************************************************************************)
(* The inputs of the wrapper: the decorated functions, each with the name  *)
(* given to the decorator and what the function returns or raises.         *)
(***************************************************************************)
MaxCalls == 3

MaxTicks == 1

WrappedCall(func, filename, result) == [func |-> func, filename |-> filename, result |-> result]

SampleTable ==
    [cols |-> {ColDate, ColPayDate, ColCategory, ColAmount},
     rows |-> << Row(Timestamp(2024, 12, 19, Hms(10, 30, 0)), Text("dmy", ".", 2024, 12, 20, NoTime),
                     "Supermarkety", -15030, 0),
                 Row(Text("dmy", ".", 2024, 11, 1, NoTime), NaT, "Supermarkety", -25075, 0) >>]

WrappedCalls ==
    { \* the decorated functions of tests/test_reports.py
      WrappedCall("test_func", NoFilename,
                  Items("dict items", <<[key |-> "test", value |-> Str("data")]>>)),
      WrappedCall("test_func", Filename("test_custom_report", <<".json">>),
                  Items("dict items", <<[key |-> "key", value |-> Str("value")]>>)),
      WrappedCall("test_func", Filename("test_dataframe", <<".json">>),
                  spending_by_category(SampleTable, "Supermarkety", NoDate,
                                       Timestamp(2024, 12, 20, Hms(15, 0, 0)))),
      \* the report functions
      WrappedCall("spending_by_category", NoFilename,
                  spending_by_category(SampleTable, "Supermarkety", NoDate,
                                       Timestamp(2024, 12, 20, Hms(15, 0, 0)))),
      WrappedCall("spending_by_category", NoFilename, EmptyFrame),
      WrappedCall("spending_by_workday", NoFilename,
                  spending_by_workday(SampleTable, NoDate, Timestamp(2024, 12, 20, Hms(15, 0, 0)))),
      \* names without `.json`, a sequence, a mapping with a date, other values
      WrappedCall("totals", Filename("custom_report", <<>>),
                  Items("list", <<[key |-> "", value |-> Num(1)], [key |-> "", value |-> Num(2)]>>)),
      WrappedCall("summary", Filename("summary", <<".txt">>),
                  Items("dict items", << [key |-> "count", value |-> Num(42)],
                                         [key |-> "generated", value |-> Datetime(2024, 12, 20, 0)] >>)),
      WrappedCall("status", Filename("test_custom_report", <<>>), Other(Str("ok"))),
      WrappedCall("status", NoFilename, Other(None)),
      \* a function that raises
      WrappedCall("test_func", NoFilename, Raise("ValueError")) }

\* the clock reading of the wrapper, in seconds after 15:00:00
WrapperNow(tick) == Timestamp(2024, 12, 20, Hms(15, 0, 0) + tick)

(***************************************************************************)
(* The inputs of utils.py: rows with typed dates, as the loader gives.     *)
(***************************************************************************)
UtilRows ==
    { \* the rows of tests/test_utils.py
      Row(Timestamp(2024, 1, 1, Hms(10, 0, 0)), NaT, "Supermarkety", -10000, 0),
      Row(Timestamp(2024, 1, 15, Hms(10, 0, 0)), NaT, "Supermarkety", -20000, 0),
      Row(Timestamp(2024, 2, 1, Hms(10, 0, 0)), NaT, "Supermarkety", -30000, 0),
      \* the ends of the window, the instants next to them, a missing date
      Row(Timestamp(2024, 1, 1, 0), NaT, "Transport", -100, 0),
      Row(Timestamp(2023, 12, 31, Hms(23, 59, 59)), NaT, "Transport", -200, 0),
      Row(Timestamp(2024, 1, 15, Hms(23, 59, 0)), NaT, "Transport", 300, 0),
      Row(Timestamp(2024, 1, 15, Hms(23, 59, 1)), NaT, "Transport", -400, 0),
      Row(NaT, NaT, "Transport", -500, 0) }

UtilDates ==
    { Timestamp(2024, 1, 15, Hms(23, 59, 0)), Timestamp(2024, 1, 15, 0),
      Timestamp(2024, 1, 1, 0), Timestamp(2024, 2, 29, Hms(12, 0, 0)) }

GreetingDates ==
    { Timestamp(2024, 1, 1, Hms(h, mi, 0)) : h \in 0..23, mi \in {0, 59} }

(***************************************************************************)
(* The inputs of the dashboard helpers: the rows of tests/test_views.py    *)
(* and rows with equal amounts, an income, a missing and an empty card.    *)
(***************************************************************************)
MaxViewRows == 4

ViewRows ==
    { ViewRow(Timestamp(2024, 1, 1, 0), <<"*", "7", "1", "9", "7">>, -10000, "Eda", "Restoran"),
      ViewRow(Timestamp(2024, 1, 2, 0), <<"*", "7", "1", "9", "7">>, -20000, "Transport", "Taksi"),
      ViewRow(Timestamp(2024, 1, 3, 0), <<"*", "5", "0", "9", "1">>, -30000, "Eda", "Kino"),
      ViewRow(Timestamp(2024, 1, 4, 0), <<"*", "7", "1", "9", "7">>, 50000, "Zarplata", "Zarplata"),
      ViewRow(Timestamp(2024, 1, 5, 0), NoCard, -20000, "Razvlecheniya", "Teatr"),
      ViewRow(Timestamp(2024, 1, 6, 0), <<"4", "2", "7", "6", "*", "4", "2">>, -15050, "Apteki",
              "Apteka"),
      ViewRow(Timestamp(2024, 1, 7, 0), <<>>, -15050, "Transport", "Metro") }

\* tables of a few rows of every kind, and tables with more rows than the
\* dashboard lists, of three amounts
ViewTables ==
    SeqsUpTo(ViewRows, MaxViewRows)
        \cup [1..(TopN + 1) ->
                { ViewRow(Timestamp(2024, 1, 1, 0), <<"*", "7", "1", "9", "7">>, -10000, "Eda",
                          "Restoran"),
                  ViewRow(Timestamp(2024, 1, 3, 0), <<"*", "5", "0", "9", "1">>, -30000, "Eda",
                          "Kino"),
                  ViewRow(Timestamp(2024, 1, 5, 0), NoCard, -20000, "Razvlecheniya", "Teatr") }]

(***************************************************************************)
(* The inputs of the lookups and of the dashboard.                         *)
(***************************************************************************)
MaxSymbols == 2

Currencies == {"USD", "EUR"}

Stocks == {"AAPL", "GOOGL"}

\* a rate of 0.0125 and a price of 150.50, and what else a request can meet
Responses ==
    { Response("no_key", 0), Response("RequestException", 0), Response("absent", 0),
      Response("number", 125), Response("number", 15050), Response("number", 0),
      Response("null_section", 0), Response("text", 0) }

DateStrings ==
    { Text("ymd", "-", 2024, 1, 15, Hms(14, 30, 0)),
      Text("ymd", "-", 2024, 1, 15, NoTime),
      Text("dmy", ".", 2024, 1, 15, Hms(14, 30, 0)),
      Text("ymd", "-", 2024, 2, 30, Hms(14, 30, 0)) }

AllColumns == {ColDate, ColCard, ColOperationAmount, ColCategory, ColDescription}

JanuaryRows ==
    << ViewRow(Timestamp(2024, 1, 15, 0), <<"*", "7", "1", "9", "7">>, -15050, "Apteki",
               "Produkty"),
       ViewRow(Timestamp(2024, 1, 20, 0), <<"*", "5", "0", "9", "1">>, -20000, "Transport",
               "Taksi") >>

ExcelFiles ==
    { ExcelFile(FALSE, {}, "", <<>>),
      ExcelFile(TRUE, AllColumns, "float64", <<>>),
      ExcelFile(TRUE, AllColumns, "float64", JanuaryRows),
      ExcelFile(TRUE, AllColumns, "int64", JanuaryRows),
      ExcelFile(TRUE, AllColumns \ {ColCard}, "float64", JanuaryRows),
      ExcelFile(TRUE, AllColumns \ {ColDate}, "float64", JanuaryRows),
      ExcelFile(TRUE, AllColumns, "float64", Tail(JanuaryRows)) }

SettingsFiles ==
    { SettingsFile("FileNotFoundError", {}, <<>>, <<>>),
      SettingsFile("JSONDecodeError", {}, <<>>, <<>>),
      SettingsFile("PermissionError", {}, <<>>, <<>>),
      SettingsFile("list", {}, <<>>, <<>>),
      SettingsFile("dict", {}, <<>>, <<>>),
      SettingsFile("dict", {"user_currencies", "user_stocks"}, <<"USD", "EUR">>, <<"AAPL">>) }

NoDashboardCall == [func |-> ""]

(***************************************************************************)
(* The tables given to a sequence of calls.                                *)
(***************************************************************************)
MaxFrameCalls == 2

FrameTables ==
    ReportTables
        \cup [cols : {{ColDate, ColCategory, ColAmount, ColCashback}},
              rows : SeqsUpTo(CashbackRows, 1)]

(***************************************************************************)
(* State: the arguments and the outcome of the call of each component.     *)
(***************************************************************************)
VARIABLES cb_data, cb_year, cb_month, cb_out,
          rp_table, rp_now, rp_call, rp_out, rp_files,
          dr_end, dr_months, dr_out,
          wr_dir, wr_before, wr_tick, wr_call, wr_fault, wr_out, wr_calls, wr_failed,
          ut_table, ut_date, ut_call, ut_out,
          vw_table, vw_call, vw_out,
          db_call, db_looked, db_out,
          fr_table, fr_given, fr_op, fr_calls

cb_vars == <<cb_data, cb_year, cb_month, cb_out>>

rp_vars == <<rp_table, rp_now, rp_call, rp_out, rp_files>>

dr_vars == <<dr_end, dr_months, dr_out>>

wr_vars == <<wr_dir, wr_before, wr_tick, wr_call, wr_fault, wr_out, wr_calls, wr_failed>>

ut_vars == <<ut_table, ut_date, ut_call, ut_out>>

vw_vars == <<vw_table, vw_call, vw_out>>

db_vars == <<db_call, db_looked, db_out>>

fr_vars == <<fr_table, fr_given, fr_op, fr_calls>>

vars == <<cb_vars, rp_vars, dr_vars, wr_vars, ut_vars, vw_vars, db_vars, fr_vars>>

CashbackIdle ==
    /\ cb_data = [cols |-> {}, rows |-> <<>>]
    /\ cb_year = 0
    /\ cb_month = 0
    /\ cb_out = NotCalled

ReportsIdle ==
    /\ rp_table = [cols |-> {}, rows |-> <<>>]
    /\ rp_now = Timestamp(2024, 12, 20, Hms(15, 0, 0))
    /\ rp_call = NoCall
    /\ rp_out = NotCalled
    /\ rp_files = Directory(TRUE, NoFiles)

WrapperIdle ==
    /\ wr_dir = Directory(FALSE, NoFiles)
    /\ wr_before = Directory(FALSE, NoFiles)
    /\ wr_tick = 0
    /\ wr_call = [func |-> "", filename |-> NoFilename, result |-> NotCalled, tick |-> 0]
    /\ wr_fault = "none"
    /\ wr_out = NotCalled
    /\ wr_calls = 0
    /\ wr_failed = 0

UtilsIdle ==
    /\ ut_table = <<>>
    /\ ut_date = Timestamp(2024, 1, 1, 0)
    /\ ut_call = ""
    /\ ut_out = NotCalled

ViewsIdle ==
    /\ vw_table = <<>>
    /\ vw_call = ""
    /\ vw_out = NotCalled

DashboardIdle ==
    /\ db_call = NoDashboardCall
    /\ db_looked = <<>>
    /\ db_out = NotCalled

FrameIdle ==
    /\ fr_table = [cols |-> {}, rows |-> <<>>]
    /\ fr_given = [cols |-> {}, rows |-> <<>>]
    /\ fr_op = ""
    /\ fr_calls = 0

DateWindowIdle ==
    /\ dr_end = Timestamp(2024, 12, 20, 0)
    /\ dr_months = 0
    /\ dr_out = NotCalled

(***************************************************************************)
(* The cashback analyser: one call on a collection.                        *)
(***************************************************************************)
CashbackInit ==
    /\ cb_data \in [cols : CashbackColumns, rows : SeqsUpTo(CashbackRows, MaxRows)]
                    \cup {EmptyRecordList}
    /\ cb_year = 0
    /\ cb_month = 0
    /\ cb_out = NotCalled
    /\ ReportsIdle
    /\ DateWindowIdle
    /\ WrapperIdle
    /\ UtilsIdle
    /\ ViewsIdle
    /\ DashboardIdle
    /\ FrameIdle

AnalyzeCashback ==
    /\ cb_out.kind = "none"
    /\ \E year \in CashbackYears, month \in CashbackMonths :
          /\ cb_year' = year
          /\ cb_month' = month
          /\ cb_out' = analyze_cashback_categories(cb_data, year, month)
    /\ UNCHANGED <<cb_data, rp_vars, dr_vars, wr_vars, ut_vars, vw_vars, db_vars, fr_vars>>

CashbackNext == AnalyzeCashback

SpecCashback == CashbackInit /\ [][CashbackNext]_vars

(***************************************************************************)
(* The report functions: one call on a table, at one reading of the clock. *)
(* The functions keep nothing between calls.                               *)
(***************************************************************************)
ReportsInit ==
    /\ rp_table \in ReportTables
    /\ rp_now \in Clock
    /\ rp_call = NoCall
    /\ rp_out = NotCalled
    /\ rp_files = Directory(TRUE, NoFiles)
    /\ CashbackIdle
    /\ DateWindowIdle
    /\ WrapperIdle
    /\ UtilsIdle
    /\ ViewsIdle
    /\ DashboardIdle
    /\ FrameIdle

SpendingByCategory ==
    /\ rp_out.kind = "none"
    /\ \E category \in ReportCategories, date \in DateArgs :
          /\ rp_call' = [op |-> "spending_by_category", category |-> category, date |-> date]
          /\ rp_out' = spending_by_category(rp_table, category, date, rp_now)
          /\ \E fault \in {"none", "mkdir"} :
                rp_files' = report_to_file(rp_files, NoFilename, "spending_by_category",
                                rp_out', rp_now, fault).dir
    /\ UNCHANGED <<rp_table, rp_now, cb_vars, dr_vars, wr_vars, ut_vars, vw_vars, db_vars, fr_vars>>

SpendingByWeekday ==
    /\ rp_out.kind = "none"
    /\ \E date \in DateArgs :
          /\ rp_call' = [op |-> "spending_by_weekday", category |-> "", date |-> date]
          /\ rp_out' = spending_by_weekday(rp_table, date, rp_now)
          /\ \E fault \in {"none", "mkdir"} :
                rp_files' = report_to_file(rp_files, NoFilename, "spending_by_weekday",
                                rp_out', rp_now, fault).dir
    /\ UNCHANGED <<rp_table, rp_now, cb_vars, dr_vars, wr_vars, ut_vars, vw_vars, db_vars, fr_vars>>

SpendingByWorkday ==
    /\ rp_out.kind = "none"
    /\ \E date \in DateArgs :
          /\ rp_call' = [op |-> "spending_by_workday", category |-> "", date |-> date]
          /\ rp_out' = spending_by_workday(rp_table, date, rp_now)
          /\ \E fault \in {"none", "mkdir"} :
                rp_files' = report_to_file(rp_files, NoFilename, "spending_by_workday",
                                rp_out', rp_now, fault).dir
    /\ UNCHANGED <<rp_table, rp_now, cb_vars, dr_vars, wr_vars, ut_vars, vw_vars, db_vars, fr_vars>>

ReportsNext == SpendingByCategory \/ SpendingByWeekday \/ SpendingByWorkday

SpecReports == ReportsInit /\ [][ReportsNext]_vars

(***************************************************************************)
(* _get_date_range on its own.                                             *)
(***************************************************************************)
DateWindowInit ==
    /\ dr_end \in EndDates
    /\ dr_months = 0
    /\ dr_out = NotCalled
    /\ CashbackIdle
    /\ ReportsIdle
    /\ WrapperIdle
    /\ UtilsIdle
    /\ ViewsIdle
    /\ DashboardIdle
    /\ FrameIdle

GetDateRange ==
    /\ dr_out.kind = "none"
    /\ \E months \in (-MaxMonths)..MaxMonths :
          /\ dr_months' = months
          /\ dr_out' = _get_date_range(dr_end, months)
    /\ UNCHANGED <<dr_end, cb_vars, rp_vars, wr_vars, ut_vars, vw_vars, db_vars, fr_vars>>

DateWindowNext == GetDateRange

SpecDateWindow == DateWindowInit /\ [][DateWindowNext]_vars

(***************************************************************************)
(* The wrapper: calls of decorated functions, one after the other, while   *)
(* the clock runs.  The directory is absent at first.                      *)
(***************************************************************************)
WrapperInit ==
    /\ WrapperIdle
    /\ CashbackIdle
    /\ ReportsIdle
    /\ DateWindowIdle
    /\ UtilsIdle
    /\ ViewsIdle
    /\ DashboardIdle
    /\ FrameIdle

Invoke ==
    /\ wr_calls < MaxCalls
    /\ \E call \in WrappedCalls, fault \in Faults :
          LET done == report_to_file(wr_dir, call.filename, call.func, call.result,
                                     WrapperNow(wr_tick), fault)
          IN /\ wr_call' = [func |-> call.func, filename |-> call.filename,
                          result |-> call.result, tick |-> wr_tick]
             /\ wr_fault' = IF call.result.kind = "raise" THEN "none" ELSE fault
             /\ wr_before' = wr_dir
             /\ wr_dir' = done.dir
             /\ wr_out' = done.out
             /\ wr_calls' = wr_calls + 1
             /\ wr_failed' = IF call.result.kind = "raise" \/ fault # "none"
                             THEN wr_failed + 1 ELSE wr_failed
    /\ UNCHANGED <<wr_tick, cb_vars, rp_vars, dr_vars, ut_vars, vw_vars, db_vars, fr_vars>>

Tick ==
    /\ wr_tick < MaxTicks
    /\ wr_tick' = wr_tick + 1
    /\ UNCHANGED <<wr_dir, wr_before, wr_call, wr_fault, wr_out, wr_calls, wr_failed,
                   cb_vars, rp_vars, dr_vars, ut_vars, vw_vars, db_vars, fr_vars>>

WrapperNext == Invoke \/ Tick

SpecWrapper == WrapperInit /\ [][WrapperNext]_vars

(***************************************************************************)
(* utils.py: one call of a function on a loaded table.                     *)
(***************************************************************************)
UtilsInit ==
    /\ ut_table \in SeqsUpTo(UtilRows, MaxTableRows)
    /\ ut_date = Timestamp(2024, 1, 1, 0)
    /\ ut_call = ""
    /\ ut_out = NotCalled
    /\ CashbackIdle
    /\ ReportsIdle
    /\ DateWindowIdle
    /\ WrapperIdle
    /\ ViewsIdle
    /\ DashboardIdle
    /\ FrameIdle

GetGreeting ==
    /\ ut_call = ""
    /\ \E date \in GreetingDates :
          /\ ut_date' = date
          /\ ut_call' = "get_greeting"
          /\ ut_out' = Return(get_greeting(date))
    /\ UNCHANGED <<ut_table, cb_vars, rp_vars, dr_vars, wr_vars, vw_vars, db_vars, fr_vars>>

FilterTransactionsByDate ==
    /\ ut_call = ""
    /\ \E date \in UtilDates :
          /\ ut_date' = date
          /\ ut_call' = "filter_transactions_by_date"
          /\ ut_out' = Return(filter_transactions_by_date(ut_table, date))
    /\ UNCHANGED <<ut_table, cb_vars, rp_vars, dr_vars, wr_vars, vw_vars, db_vars, fr_vars>>

UtilsNext == GetGreeting \/ FilterTransactionsByDate

SpecUtils == UtilsInit /\ [][UtilsNext]_vars

(***************************************************************************)
(* The dashboard helpers: one call on a table.                             *)
(***************************************************************************)
ViewsInit ==
    /\ vw_table \in ViewTables
    /\ vw_call = ""
    /\ vw_out = NotCalled
    /\ CashbackIdle
    /\ ReportsIdle
    /\ DateWindowIdle
    /\ WrapperIdle
    /\ UtilsIdle
    /\ DashboardIdle
    /\ FrameIdle

GetCardsInfo ==
    /\ vw_call = ""
    /\ vw_call' = "get_cards_info"
    /\ vw_out' = Return(get_cards_info(vw_table))
    /\ UNCHANGED <<vw_table, cb_vars, rp_vars, dr_vars, wr_vars, ut_vars, db_vars, fr_vars>>

GetTopTransactions ==
    /\ vw_call = ""
    /\ vw_call' = "get_top_transactions"
    /\ vw_out' = Return(get_top_transactions(vw_table))
    /\ UNCHANGED <<vw_table, cb_vars, rp_vars, dr_vars, wr_vars, ut_vars, db_vars, fr_vars>>

GetExpensesInfo ==
    /\ vw_call = ""
    /\ vw_call' = "get_expenses_info"
    /\ \E ties \in {"first", "last"} : vw_out' = Return(get_expenses_info(vw_table, ties))
    /\ UNCHANGED <<vw_table, cb_vars, rp_vars, dr_vars, wr_vars, ut_vars, db_vars, fr_vars>>

ViewsNext == GetCardsInfo \/ GetTopTransactions \/ GetExpensesInfo

SpecViews == ViewsInit /\ [][ViewsNext]_vars

(***************************************************************************)
(* The lookups and the entry points: one call.                             *)
(***************************************************************************)
DashboardInit ==
    /\ DashboardIdle
    /\ FrameIdle
    /\ CashbackIdle
    /\ ReportsIdle
    /\ DateWindowIdle
    /\ WrapperIdle
    /\ UtilsIdle
    /\ ViewsIdle

GetCurrencyRates ==
    /\ db_call = NoDashboardCall
    /\ \E currencies \in SeqsUpTo(Currencies, MaxSymbols) :
          \E responses \in [1..Len(currencies) -> Responses] :
             LET done == get_currency_rates(currencies, responses)
             IN /\ db_call' = [func |-> "get_currency_rates", symbols |-> currencies,
                               responses |-> responses]
                /\ db_looked' = done.looked
                /\ db_out' = done.out
    /\ UNCHANGED <<cb_vars, rp_vars, dr_vars, wr_vars, ut_vars, vw_vars, fr_vars>>

GetStockPrices ==
    /\ db_call = NoDashboardCall
    /\ \E stocks \in SeqsUpTo(Stocks, MaxSymbols) :
          \E responses \in [1..Len(stocks) -> Responses] :
             LET done == get_stock_prices(stocks, responses)
             IN /\ db_call' = [func |-> "get_stock_prices", symbols |-> stocks,
                               responses |-> responses]
                /\ db_looked' = done.looked
                /\ db_out' = done.out
    /\ UNCHANGED <<cb_vars, rp_vars, dr_vars, wr_vars, ut_vars, vw_vars, fr_vars>>

MainPageView ==
    /\ db_call = NoDashboardCall
    /\ \E date_str \in DateStrings, file \in ExcelFiles, settings_file \in SettingsFiles,
          ties \in {"first", "last"} :
          \E rate_responses \in [1..Len(user_currencies(settings_file)) -> Responses],
             price_responses \in [1..Len(user_stocks(settings_file)) -> Responses] :
             LET done == main_page_view(date_str, file, settings_file, rate_responses,
                                        price_responses, ties)
             IN /\ db_call' = [func |-> "main_page_view", date_str |-> date_str,
                               file |-> file, settings_file |-> settings_file,
                               symbols |-> user_currencies(settings_file)
                                             \o user_stocks(settings_file),
                               rate_responses |-> rate_responses,
                               price_responses |-> price_responses]
                /\ db_looked' = done.looked
                /\ db_out' = done.out
    /\ UNCHANGED <<cb_vars, rp_vars, dr_vars, wr_vars, ut_vars, vw_vars, fr_vars>>

GetReportByCategory ==
    /\ db_call = NoDashboardCall
    /\ \E category \in ReportCategories, date \in DateArgs :
          /\ db_call' = [func |-> "get_report_by_category", category |-> category,
                         date |-> date]
          /\ db_looked' = <<>>
          /\ db_out' = get_report_by_category("data/operations.xlsx", category, date)
    /\ UNCHANGED <<cb_vars, rp_vars, dr_vars, wr_vars, ut_vars, vw_vars, fr_vars>>

DashboardNext == GetCurrencyRates \/ GetStockPrices \/ MainPageView \/ GetReportByCategory

SpecDashboard == DashboardInit /\ [][DashboardNext]_vars

(***************************************************************************)
(* Sequences of calls on one table.                                        *)
(***************************************************************************)
FrameInit ==
    /\ fr_table \in FrameTables
    /\ fr_given = fr_table
    /\ fr_op = ""
    /\ fr_calls = 0
    /\ CashbackIdle
    /\ ReportsIdle
    /\ DateWindowIdle
    /\ WrapperIdle
    /\ UtilsIdle
    /\ ViewsIdle
    /\ DashboardIdle

CallOn(op) ==
    /\ fr_calls < MaxFrameCalls
    /\ fr_table' = after_call(op, fr_table)
    /\ fr_op' = op
    /\ fr_calls' = fr_calls + 1
    /\ UNCHANGED <<fr_given, cb_vars, rp_vars, dr_vars, wr_vars, ut_vars, vw_vars, db_vars>>

CallSpendingByCategory == CallOn("spending_by_category")

CallSpendingByWeekday == CallOn("spending_by_weekday")

CallSpendingByWorkday == CallOn("spending_by_workday")

CallAnalyzeCashback == CallOn("analyze_cashback_categories")

CallFilterTransactionsByDate == CallOn("filter_transactions_by_date")

CallGetCardsInfo == CallOn("get_cards_info")

CallGetTopTransactions == CallOn("get_top_transactions")

CallGetExpensesInfo == CallOn("get_expenses_info")

FrameNext ==
    \/ CallSpendingByCategory
    \/ CallSpendingByWeekday
    \/ CallSpendingByWorkday
    \/ CallAnalyzeCashback
    \/ CallFilterTransactionsByDate
    \/ CallGetCardsInfo
    \/ CallGetTopTransactions
    \/ CallGetExpensesInfo

SpecFrame == FrameInit /\ [][FrameNext]_vars

(***************************************************************************)
(* Claims about the cashback analyser.                                     *)
(***************************************************************************)
RequiredFields == {ColDate, ColCategory, ColAmount, ColCashback}

CashbackCalled == cb_out.kind # "none"

\* the date a cell denotes lies in the month, however the cell is written
DenotesMonth(cell, year, month) ==
    /\ cell.kind \in {"ts", "text"}
    /\ ValidDate(cell.y, cell.m, cell.d)
    /\ cell.y = year
    /\ cell.m = month

\* the rows of the month with a negative amount
MonthExpenses(rows, year, month) ==
    {i \in 1..Len(rows) : DenotesMonth(rows[i].date, year, month) /\ rows[i].amt < 0}

\* the mapping the contract describes: category -> 1% of the summed absolute amounts
ExpectedKeys(rows, year, month) ==
    {rows[i].cat : i \in MonthExpenses(rows, year, month)} \ {NoCategory}

ExpectedSum(rows, year, month, c) ==
    SumSeq([i \in 1..Len(rows) |->
        IF i \in MonthExpenses(rows, year, month) /\ rows[i].cat = c
        THEN Abs(rows[i].amt) ELSE 0])

IsExpectedMapping(out, rows, year, month) ==
    /\ out.kind = "return"
    /\ {out.value[k].category : k \in 1..Len(out.value)} = ExpectedKeys(rows, year, month)
    /\ Len(out.value) = Cardinality(ExpectedKeys(rows, year, month))
    /\ \A k \in 1..Len(out.value) :
          LET sum == ExpectedSum(rows, year, month, out.value[k].category)
          IN /\ 100 * out.value[k].cashback - sum <= 50
             /\ sum - 100 * out.value[k].cashback <= 50

\* C1: with the four required fields present, the result maps exactly the
\* categories that have an expense row in the given year and month to 1% of
\* the summed absolute amounts of those rows, rounded to 2 decimals
C1_MonthlyCashbackMapping ==
    (CashbackCalled /\ RequiredFields \subseteq cb_data.cols)
        => IsExpectedMapping(cb_out, cb_data.rows, cb_year, cb_month)

\* the records of tests/test_services.py
IsTestShape(data) ==
    /\ data.cols = {ColDate, ColCategory, ColAmount, ColCashbackTests}
    /\ data.rows # <<>>
    /\ \A i \in 1..Len(data.rows) :
          /\ data.rows[i].date.kind = "text"
          /\ data.rows[i].date.order = "ymd"
          /\ data.rows[i].date.sep = "-"
          /\ data.rows[i].date.sec # NoTime

TestJanuaryRows ==
    << Row(Text("ymd", "-", 2024, 1, 15, Hms(10, 30, 0)), NaT, "Supermarkety", -150050, 1501),
       Row(Text("ymd", "-", 2024, 1, 20, Hms(15, 45, 0)), NaT, "Kafe i restorany", -80000, 800),
       Row(Text("ymd", "-", 2024, 1, 25, Hms(9, 15, 0)), NaT, "Supermarkety", -50025, 500) >>

\* C2: records written as in the tests (`YYYY-MM-DD HH:MM:SS` dates, the
\* cashback field named `Кэшбэк`) give the per-category cashback of the month;
\* the three January-2024 rows give Супермаркеты 20.01 and Кафе и рестораны 8.00
C2_AcceptsTestRecords ==
    (CashbackCalled /\ IsTestShape(cb_data))
        => /\ IsExpectedMapping(cb_out, cb_data.rows, cb_year, cb_month)
           /\ (cb_data.rows = TestJanuaryRows /\ cb_year = 2024 /\ cb_month = 1)
                 => cb_out = Return(<< [category |-> "Supermarkety", cashback |-> 2001],
                                       [category |-> "Kafe i restorany", cashback |-> 800] >>)

\* a row the code's own filter keeps
CodeKeeps(rows, year, month) ==
    {i \in 1..Len(rows) :
        /\ to_datetime(rows[i].date).kind = "ts"
        /\ DenotesMonth(rows[i].date, year, month)
        /\ rows[i].amt < 0}

\* C3: a call whose input lacks one of the four required fields raises a
\* validation error whatever its rows hold, and a call that returns the empty
\* mapping is one whose input has the four fields: the two outcomes differ
C3_MissingFieldRaises ==
    CashbackCalled =>
        /\ (~(RequiredFields \subseteq cb_data.cols)) => cb_out = Raise("ValueError")
        /\ (RequiredFields \subseteq cb_data.cols) => cb_out.kind = "return"

C3_Witness ==
    /\ CashbackCalled
    /\ ColCategory \notin cb_data.cols
    /\ CodeKeeps(cb_data.rows, cb_year, cb_month) # {}
    /\ cb_out = Raise("ValueError")

\* a collection with the operation date, the category, the amount and a
\* cashback field, the last under the name services.py or its tests give it
CarriesFourFields(cols) ==
    /\ {ColDate, ColCategory, ColAmount} \subseteq cols
    /\ (ColCashback \in cols \/ ColCashbackTests \in cols)

\* C4: when no row has both a date in the target month and a negative amount,
\* the call returns the empty mapping and raises nothing
C4_NoMatchReturnsEmpty ==
    (/\ CashbackCalled
     /\ CarriesFourFields(cb_data.cols)
     /\ MonthExpenses(cb_data.rows, cb_year, cb_month) = {})
        => cb_out = Return(<<>>)

\* C5: the categories of a returned mapping are listed by non-increasing
\* cashback amount
C5_DescendingOrder ==
    cb_out.kind = "return" =>
        \A i, j \in 1..Len(cb_out.value) :
            i < j => cb_out.value[i].cashback >= cb_out.value[j].cashback

C5_Witness ==
    /\ cb_out.kind = "return"
    /\ Len(cb_out.value) >= 2
    /\ cb_out.value[1].cashback > cb_out.value[2].cashback
    /\ CatRank(cb_out.value[1].category) > CatRank(cb_out.value[2].category)

(***************************************************************************)
(* Claims about the date window.                                           *)
(***************************************************************************)
DateRangeCalled == dr_out.kind # "none"

EndOrdinal == ToOrdinal(dr_end.y, dr_end.m, dr_end.d)

\* C6 as stated: for every end date and every integer month count, the
\* window ends at the given date, starts exactly M*30 days before it, and
\* start <= end
C6_WindowForEveryMonthCount ==
    DateRangeCalled =>
        /\ dr_out.kind = "range"
        /\ dr_out.end = <<EndOrdinal, dr_end.sec>>
        /\ dr_out.start = <<EndOrdinal - 30 * dr_months, dr_end.sec>>
        /\ InstLe(dr_out.start, dr_out.end)

\* C6 as amended: for every end date and every month count M >= 0 whose
\* start day end - M*30 is a date (not before 0001-01-01), the window ends at
\* the given date, starts exactly M*30 days before it at the same time of
\* day, and start <= end; for M < 0 the start is after the end; a start day
\* that is no date raises OverflowError
C6_WindowForNonNegativeMonths ==
    DateRangeCalled =>
        /\ (dr_months >= 0 /\ EndOrdinal - 30 * dr_months >= 1) =>
              /\ dr_out.kind = "range"
              /\ dr_out.end = <<EndOrdinal, dr_end.sec>>
              /\ dr_out.start = <<EndOrdinal - 30 * dr_months, dr_end.sec>>
              /\ InstLe(dr_out.start, dr_out.end)
        /\ (dr_months < 0 /\ dr_out.kind = "range") =>
              /\ dr_out.start = <<EndOrdinal - 30 * dr_months, dr_end.sec>>
              /\ ~InstLe(dr_out.start, dr_out.end)
        /\ (EndOrdinal - 30 * dr_months < 1 \/ EndOrdinal - 30 * dr_months > ToOrdinal(9999, 12, 31))
              <=> dr_out.kind = "OverflowError"

C6_Witness ==
    /\ DateRangeCalled
    /\ dr_months = 3
    /\ dr_end = Timestamp(2024, 12, 31, 0)
    /\ dr_out = DateRange(<<ToOrdinal(2024, 10, 2), 0>>, <<ToOrdinal(2024, 12, 31), 0>>)

(***************************************************************************)
(* Claims about the report functions.                                      *)
(***************************************************************************)
ReportCalled == rp_out.kind # "none"

\* the text is written in one of the four accepted ways and names a date
IsAccepted(d) ==
    /\ d.kind = "text"
    /\ <<d.order, d.sep>> \in {<<"dmy", ".">>, <<"ymd", "-">>}
    /\ ValidDate(d.y, d.m, d.d)

\* the date and time a text denotes: midnight when it has no time part
Denoted(d) == Timestamp(d.y, d.m, d.d, IF d.sec = NoTime THEN 0 ELSE d.sec)

\* the as-of date a call resolves to
AsOf(d, now) == IF IsAccepted(d) THEN Denoted(d) ELSE now

\* two date arguments that mean the same: the same date and time in accepted
\* formats, or no usable date at all (absent, or matching no format)
SameMeaning(d1, d2) ==
    IF IsAccepted(d1) /\ IsAccepted(d2) THEN Denoted(d1) = Denoted(d2)
    ELSE ~IsAccepted(d1) /\ ~IsAccepted(d2)

\* the report of the state's call, with another date argument
ReportWith(date) ==
    IF rp_call.op = "spending_by_category"
    THEN spending_by_category(rp_table, rp_call.category, date, rp_now)
    ELSE IF rp_call.op = "spending_by_weekday"
    THEN spending_by_weekday(rp_table, date, rp_now)
    ELSE spending_by_workday(rp_table, date, rp_now)

\* C7: _parse_date never raises; a text in an accepted format resolves to the
\* date and time it denotes, an absent or unmatched text to the current date
\* and time; so a report does not depend on which accepted format writes the
\* date, and an unparseable date gives the report of a call without date
C7_ParseDateFallsBack ==
    ReportCalled =>
        /\ _parse_date(rp_call.date, rp_now).kind = "ts"
        /\ _parse_date(rp_call.date, rp_now) = AsOf(rp_call.date, rp_now)
        /\ \A d \in DateArgs : SameMeaning(rp_call.date, d) => ReportWith(d) = rp_out

C7_Witness ==
    /\ ReportCalled
    /\ rp_call.op = "spending_by_category"
    /\ rp_call.date = Text("dmy", ".", 2024, 11, 31, NoTime)
    /\ rp_out.rows # <<>>
    /\ rp_out = ReportWith(NoDate)
    /\ rp_out # ReportWith(Text("dmy", ".", 2024, 12, 20, NoTime))

\* the table has the columns spending_by_category needs
HasCategoryColumns(cols) ==
    /\ {ColAmount, ColCategory} \subseteq cols
    /\ (ColDate \in cols \/ ColPayDate \in cols)

\* the date cell the reports read: the primary column, else the fallback
ReportDate(row, cols) == IF ColDate \in cols THEN row.date ELSE row.pdate

\* the column conversion understands the cell
Parseable(cell) ==
    \/ cell.kind = "ts"
    \/ (cell.kind = "text" /\ cell.order = "dmy" /\ cell.sep = "." /\ cell.sec = NoTime
          /\ ValidDate(cell.y, cell.m, cell.d))

\* the instant lies in the 90 days that end at the as-of instant
InWindow(cell, asof) ==
    LET t == <<ToOrdinal(cell.y, cell.m, cell.d), IF cell.sec = NoTime THEN 0 ELSE cell.sec>>
        e == <<ToOrdinal(asof.y, asof.m, asof.d), asof.sec>>
    IN /\ InstLe(<<e[1] - 90, e[2]>>, t)
       /\ InstLe(t, e)

\* the rows spending_by_category is to return
CategoryMatches(table, category, asof) ==
    {i \in 1..Len(table.rows) :
        /\ Parseable(ReportDate(table.rows[i], table.cols))
        /\ table.rows[i].cat = category
        /\ table.rows[i].amt < 0
        /\ InWindow(ReportDate(table.rows[i], table.cols), asof)}

\* C8: spending_by_category returns, in the order of the table, exactly the
\* rows of the requested category with a negative amount and a date in the
\* 90-day window ending at the resolved as-of date; every returned row is a
\* row of the table; a category without such a row gives an empty table
C8_CategoryRows ==
    (ReportCalled /\ rp_call.op = "spending_by_category" /\ HasCategoryColumns(rp_table.cols)) =>
        LET asof == AsOf(rp_call.date, rp_now)
            out == rp_out.rows
        IN /\ rp_out.kind = "frame"
           /\ {out[k].idx : k \in 1..Len(out)} = CategoryMatches(rp_table, rp_call.category, asof)
           /\ \A j, k \in 1..Len(out) : j < k => out[j].idx < out[k].idx
           /\ \A k \in 1..Len(out) :
                LET given == rp_table.rows[out[k].idx]
                IN /\ out[k].row.cat = given.cat
                   /\ out[k].row.amt = given.amt
                   /\ out[k].row.cb = given.cb
                   /\ Instant(ReportDate(out[k].row, rp_table.cols))
                        = Instant(Denoted(ReportDate(given, rp_table.cols)))

C8_Witness ==
    /\ ReportCalled
    /\ rp_call.op = "spending_by_category"
    /\ Len(rp_table.rows) = 2
    /\ Len(rp_out.rows) = 1
    /\ rp_out.rows[1].idx = 2
    /\ rp_table.rows[1].cat = rp_call.category
    /\ rp_table.rows[1].amt < 0

\* the table lacks what a report needs
LacksColumns(cols) ==
    \/ ColAmount \notin cols
    \/ (ColDate \notin cols /\ ColPayDate \notin cols)

\* an expense row whose calendar day is in the window's days, first and last
\* day included, whatever its time of day
DayInWindow(cell, asof) ==
    LET day == ToOrdinal(cell.y, cell.m, cell.d)
        last == ToOrdinal(asof.y, asof.m, asof.d)
    IN day >= last - 90 /\ day <= last

WindowDayExpenses(table, asof) ==
    {i \in 1..Len(table.rows) :
        /\ Parseable(ReportDate(table.rows[i], table.cols))
        /\ table.rows[i].amt < 0
        /\ DayInWindow(ReportDate(table.rows[i], table.cols), asof)}

\* the number of rows that take part in a report
Participants(out) ==
    IF out.kind = "frame"
    THEN SumSeq([k \in 1..Len(out.rows) |->
            IF "idx" \in DOMAIN out.rows[k] THEN 1 ELSE out.rows[k].kolichestvo_tranzaktsiy])
    ELSE IF out = EmptyMapping THEN 0
    ELSE IF "rabochie_dni" \in DOMAIN out.value
    THEN out.value.rabochie_dni.transaction_count + out.value.vyhodnye_dni.transaction_count
    ELSE out.value.workday.transactions + out.value.weekend.transactions

\* C9: the window is inclusive at both ends by day: every expense row dated
\* from the first day of the window to the as-of day, these two included,
\* takes part in the report whatever its time of day
C9_WindowInclusiveByDay ==
    (/\ ReportCalled
     /\ ~LacksColumns(rp_table.cols)
     /\ (rp_call.op = "spending_by_category" => ColCategory \in rp_table.cols)
     /\ ToOrdinal(AsOf(rp_call.date, rp_now).y, AsOf(rp_call.date, rp_now).m,
                  AsOf(rp_call.date, rp_now).d) > 90) =>
        LET days == WindowDayExpenses(rp_table, AsOf(rp_call.date, rp_now))
        IN Participants(rp_out) =
             Cardinality(IF rp_call.op = "spending_by_category"
                         THEN {i \in days : rp_table.rows[i].cat = rp_call.category}
                         ELSE days)

WeekdayIndex(cell) == (ToOrdinal(cell.y, cell.m, cell.d) + 6) % 7

\* the expense rows of the window: a date the column conversion understands,
\* in the window, and a negative amount
WindowExpenses(table, asof) ==
    IF LacksColumns(table.cols) THEN {}
    ELSE {i \in 1..Len(table.rows) :
            /\ Parseable(ReportDate(table.rows[i], table.cols))
            /\ table.rows[i].amt < 0
            /\ InWindow(ReportDate(table.rows[i], table.cols), asof)}

\* the summed absolute amounts of the rows of a set
AbsTotal(table, S) ==
    SumSeq([i \in 1..Len(table.rows) |-> IF i \in S THEN Abs(table.rows[i].amt) ELSE 0])

\* the call's as-of date has a window: its first day is a date
WindowExists ==
    ToOrdinal(AsOf(rp_call.date, rp_now).y, AsOf(rp_call.date, rp_now).m,
              AsOf(rp_call.date, rp_now).d) > 90

OnWeekday(table, S, k) ==
    {i \in S : WeekdayIndex(ReportDate(table.rows[i], table.cols)) = k}

\* C11: spending_by_weekday has exactly one row for each weekday index on
\* which an expense row of the window falls and no other row, in strictly
\* ascending weekday index; a row's count is the number of those expense rows
\* and its total the sum of their absolute amounts
C11_WeekdayRows ==
    (/\ ReportCalled
     /\ rp_call.op = "spending_by_weekday"
     /\ ~LacksColumns(rp_table.cols)
     /\ WindowExists) =>
        LET W == WindowExpenses(rp_table, AsOf(rp_call.date, rp_now))
            out == rp_out.rows
        IN /\ rp_out.kind = "frame"
           /\ {out[k].den_nedeli : k \in 1..Len(out)}
                = {k \in 0..6 : OnWeekday(rp_table, W, k) # {}}
           /\ \A j, k \in 1..Len(out) : j < k => out[j].den_nedeli < out[k].den_nedeli
           /\ \A k \in 1..Len(out) :
                /\ out[k].kolichestvo_tranzaktsiy
                     = Cardinality(OnWeekday(rp_table, W, out[k].den_nedeli))
                /\ out[k].obshchie_traty
                     = AbsTotal(rp_table, OnWeekday(rp_table, W, out[k].den_nedeli))

\* two weekdays, the later one first in the table
C11_Witness ==
    /\ ReportCalled
    /\ rp_call.op = "spending_by_weekday"
    /\ Len(rp_table.rows) = 2
    /\ Len(rp_out.rows) = 2
    /\ rp_out.rows[1].den_nedeli = 4
    /\ rp_out.rows[2].den_nedeli = 5
    /\ WeekdayIndex(ReportDate(rp_table.rows[1], rp_table.cols)) = 5

\* C12: the per-weekday totals of spending_by_weekday add up to the summed
\* absolute amounts of the expense rows of the window, and the per-weekday
\* counts to the number of those rows
C12_WeekdayTotals ==
    (ReportCalled /\ rp_call.op = "spending_by_weekday" /\ WindowExists) =>
        LET W == WindowExpenses(rp_table, AsOf(rp_call.date, rp_now))
            out == rp_out.rows
        IN /\ SumSeq([k \in 1..Len(out) |-> out[k].obshchie_traty]) = AbsTotal(rp_table, W)
           /\ SumSeq([k \in 1..Len(out) |-> out[k].kolichestvo_tranzaktsiy]) = Cardinality(W)

\* an expense and an income in the window: only the expense is summed
C12_Witness ==
    /\ ReportCalled
    /\ rp_call.op = "spending_by_weekday"
    /\ Len(rp_table.rows) = 2
    /\ \E i \in 1..2 : rp_table.rows[i].amt > 0
    /\ Len(rp_out.rows) = 1
    /\ rp_out.rows[1].kolichestvo_tranzaktsiy = 1
    /\ rp_out.rows[1].obshchie_traty = 25075

\* the two partition entries of a workday report, under either of the two
\* spellings the function gives them, as <<workdays, weekends>>
Partitions(out) ==
    IF "rabochie_dni" \in DOMAIN out.value
    THEN << [count |-> out.value.rabochie_dni.transaction_count,
             total |-> out.value.rabochie_dni.total_spent],
            [count |-> out.value.vyhodnye_dni.transaction_count,
             total |-> out.value.vyhodnye_dni.total_spent] >>
    ELSE << [count |-> out.value.workday.transactions, total |-> out.value.workday.total_spent],
            [count |-> out.value.weekend.transactions, total |-> out.value.weekend.total_spent] >>

HasPartitions(out) ==
    /\ out.kind = "dict"
    /\ out.value # <<>>
    /\ \/ {"rabochie_dni", "vyhodnye_dni"} \subseteq DOMAIN out.value
       \/ {"workday", "weekend"} \subseteq DOMAIN out.value

WorkdayCalled ==
    /\ ReportCalled
    /\ rp_call.op = "spending_by_workday"
    /\ ~LacksColumns(rp_table.cols)
    /\ WindowExists

HasShares(out) ==
    /\ HasPartitions(out)
    /\ \E key \in {"sravnenie", "comparison"} :
          /\ key \in DOMAIN out.value
          /\ {"dolya_rabochih_dney_v_tratah", "dolya_vyhodnyh_dney_v_tratah"}
                \subseteq DOMAIN out.value[key]

Shares(out) ==
    LET block == IF "sravnenie" \in DOMAIN out.value
                 THEN out.value.sravnenie ELSE out.value.comparison
    IN <<block.dolya_rabochih_dney_v_tratah, block.dolya_vyhodnyh_dney_v_tratah>>

\* x is total / both * 100 rounded to 2 decimals, in hundredths
IsShareOf(x, total, both) == 2 * Abs(x * both - 10000 * total) <= both

\* C14: in the result of spending_by_workday, when the combined total of the
\* two partitions is greater than 0 each share is the partition's total
\* divided by the combined total times 100 and the two add up to 100 within
\* rounding to 2 decimals; when the combined total is 0 both shares are 0
C14_WorkdayShares ==
    WorkdayCalled =>
        LET both == Partitions(rp_out)[1].total + Partitions(rp_out)[2].total
        IN /\ HasShares(rp_out)
           /\ IF both > 0
              THEN /\ IsShareOf(Shares(rp_out)[1], Partitions(rp_out)[1].total, both)
                   /\ IsShareOf(Shares(rp_out)[2], Partitions(rp_out)[2].total, both)
                   /\ Abs(Shares(rp_out)[1] + Shares(rp_out)[2] - 10000) <= 1
              ELSE Shares(rp_out) = <<0, 0>>

(***************************************************************************)
(* Claims about the wrapper.                                               *)
(***************************************************************************)
\* the last call of a decorated function has returned a value
Returned == wr_calls > 0 /\ wr_call.result.kind # "raise"

\* ... and its artifact was written without a failure
Written == Returned /\ wr_fault = "none"

\* C15: the wrapper returns to the caller exactly what the wrapped function
\* returned, for every result type; a failure of mkdir, of the serialization
\* or of the write neither raises nor changes the returned value
C15_WrapperReturnsResult ==
    Returned => wr_out = wr_call.result

\* the write of a table failed and the caller has the table
C15_Witness ==
    /\ Returned
    /\ wr_fault = "write"
    /\ wr_call.result.kind = "frame"
    /\ wr_call.result.rows # <<>>
    /\ wr_out = wr_call.result

\* the name the artifact is to have
ExpectedName ==
    IF wr_call.filename.given
    THEN [prefix |-> "", stem |-> wr_call.filename.stem, stamp |-> <<>>,
          ext |-> IF wr_call.filename.ext = <<".json">> THEN <<".json">>
                  ELSE wr_call.filename.ext \o <<".json">>]
    ELSE [prefix |-> "report", stem |-> wr_call.func,
          stamp |-> <<2024, 12, 20, 15 * 3600 + wr_call.tick>>, ext |-> <<".json">>]

\* C16: the artifact is written in the reports directory, created when
\* absent; its name is the explicit name, with `.json` appended only when the
\* name does not end in `.json`, else report_<function>_<time to the second>.json
C16_ArtifactName ==
    Written =>
        /\ wr_dir.exists
        /\ ExpectedName \in DOMAIN wr_dir.files
        /\ DOMAIN wr_dir.files = DOMAIN wr_before.files \cup {ExpectedName}

\* the directory was absent; the name had another suffix and got `.json`
C16_Witness ==
    /\ Written
    /\ ~wr_before.exists
    /\ wr_dir.exists
    /\ wr_call.filename = Filename("summary", <<".txt">>)
    /\ DOMAIN wr_dir.files
         = {[prefix |-> "", stem |-> "summary", stamp |-> <<>>, ext |-> <<".txt", ".json">>]}

\* C17 as stated: after n calls whose writes succeed the directory holds n
\* distinct artifacts, none replaced by the artifact of another call
C17_OneArtifactPerInvocation ==
    wr_failed = 0 => Cardinality(DOMAIN wr_dir.files) = wr_calls

\* C17, amended: a call whose write succeeds leaves every artifact of another
\* name as it was and writes the one of its name, replacing the artifact an
\* earlier call wrote under that name (the same explicit name, or the same
\* function within the same second): n calls leave at most n artifacts
C17_OneArtifactPerName ==
    /\ Cardinality(DOMAIN wr_dir.files) <= wr_calls
    /\ Written =>
          /\ ExpectedName \in DOMAIN wr_dir.files
          /\ \A name \in DOMAIN wr_before.files :
                name # ExpectedName =>
                    /\ name \in DOMAIN wr_dir.files
                    /\ wr_dir.files[name] = wr_before.files[name]

\* three calls, all written, two artifacts: one call replaced an artifact
C17_Witness ==
    /\ wr_failed = 0
    /\ wr_calls = 3
    /\ Written
    /\ Cardinality(DOMAIN wr_dir.files) = 2
    /\ ExpectedName \in DOMAIN wr_before.files
    /\ wr_before.files[ExpectedName] # wr_dir.files[ExpectedName]

\* the artifact of the last call
Artifact == wr_dir.files[ExpectedName]

\* a date cell of a written record is the DD.MM.YYYY text of the cell's date
\* when the cell is a datetime, and the cell itself when it is not
IsWrittenCell(written, cell) ==
    IF cell.kind = "ts"
    THEN written = [kind |-> "text", order |-> "dmy", sep |-> ".",
                    y |-> cell.y, m |-> cell.m, d |-> cell.d, sec |-> NoTime]
    ELSE written = cell

IsWrittenTable(content, rows) ==
    /\ content.format = "json"
    /\ Len(content.value) = Len(rows)
    /\ \A i \in 1..Len(rows) :
          /\ IsWrittenCell(content.value[i].row.date, rows[i].row.date)
          /\ IsWrittenCell(content.value[i].row.pdate, rows[i].row.pdate)
          /\ content.value[i].row.cat = rows[i].row.cat
          /\ content.value[i].row.amt = rows[i].row.amt
          /\ content.value[i].row.cb = rows[i].row.cb

\* the text str() gives a value
IsTextOf(written, v) ==
    /\ written.type = "str"
    /\ IF v.type = "str" THEN written = v
       ELSE IF v.type = "int" THEN written.text = "%d" /\ written.num = v.num
       ELSE IF v.type = "datetime"
       THEN written.text = "%Y-%m-%d %H:%M:%S" /\ written.at = v.at
       ELSE written.text = "None"

\* what json.load gives for the artifact: the texts and numbers of the file
ReadBack(content) == content.value

\* the parts of C18 about a table and about a value that is neither a table,
\* nor a mapping, nor a sequence
TableAndOtherWritten ==
    /\ wr_call.result.kind = "frame" => IsWrittenTable(Artifact, wr_call.result.rows)
    /\ (wr_call.result.kind = "frame" /\ wr_call.result.rows = <<>>)
          => Artifact.format = "json" /\ Artifact.value = <<>>
    /\ wr_call.result.kind = "other"
          => Artifact.format = "text" /\ IsTextOf(Artifact.value, wr_call.result.value)

\* C18 as stated: a table is written as the list of its records in row order,
\* each datetime as DD.MM.YYYY and every other field unchanged, an empty
\* table as an empty array, any other value as its text; a mapping or a
\* sequence as its JSON form, so that reading the artifact back gives an
\* equal value
C18_ArtifactRoundTrip ==
    Written =>
        /\ TableAndOtherWritten
        /\ wr_call.result.kind \in {"dict", "dict items", "list"}
              => Artifact.format = "json" /\ ReadBack(Artifact) = wr_call.result.value

\* C18, amended: as stated for tables and other values; a mapping or a
\* sequence is written as JSON in which a value JSON cannot write (a date) is
\* its text, so that reading the artifact back gives an equal value when
\* every value is a text, a number or None, and the text of the value where
\* it is not
C18_ArtifactContent ==
    Written =>
        /\ TableAndOtherWritten
        /\ wr_call.result.kind = "dict"
              => Artifact.format = "json" /\ ReadBack(Artifact) = wr_call.result.value
        /\ wr_call.result.kind \in {"dict items", "list"} =>
              /\ Artifact.format = "json"
              /\ Len(ReadBack(Artifact)) = Len(wr_call.result.value)
              /\ \A i \in 1..Len(wr_call.result.value) :
                    LET given == wr_call.result.value[i]
                        read == ReadBack(Artifact)[i]
                    IN /\ read.key = given.key
                       /\ IF given.value.type \in {"str", "int", "NoneType"}
                          THEN read.value = given.value
                          ELSE IsTextOf(read.value, given.value)

\* a table of two rows is written; its datetime has lost its time of day
C18_Witness ==
    /\ Written
    /\ wr_call.result.kind = "frame"
    /\ Len(wr_call.result.rows) = 2
    /\ wr_call.result.rows[1].row.date.kind = "ts"
    /\ wr_call.result.rows[1].row.date.sec # 0
    /\ Artifact.value[1].row.date = Text("dmy", ".", 2024, 12, 19, NoTime)

(***************************************************************************)
(* Claims about utils.py.                                                  *)
(***************************************************************************)
\* the greeting the contract gives an hour of day
GreetingOfHour(hour) ==
    IF hour \in 5..11 THEN "Dobroe utro"
    ELSE IF hour \in 12..17 THEN "Dobryy den"
    ELSE IF hour \in 18..22 THEN "Dobryy vecher"
    ELSE "Dobroy nochi"

\* C19: get_greeting gives every hour of day 0..23 exactly one greeting:
\* 5-11 morning, 12-17 afternoon, 18-22 evening, 23 and 0-4 night; hour 4 is
\* night, 5 and 11 are morning, 12 is afternoon
C19_GreetingByHour ==
    ut_call = "get_greeting" =>
        /\ ut_date.sec \div 3600 \in 0..23
        /\ ut_out = Return(GreetingOfHour(ut_date.sec \div 3600))
        /\ get_greeting(Timestamp(2024, 1, 1, Hms(4, 59, 59))) = "Dobroy nochi"
        /\ get_greeting(Timestamp(2024, 1, 1, Hms(5, 0, 0))) = "Dobroe utro"
        /\ get_greeting(Timestamp(2024, 1, 1, Hms(11, 59, 59))) = "Dobroe utro"
        /\ get_greeting(Timestamp(2024, 1, 1, Hms(12, 0, 0))) = "Dobryy den"

\* 05:00 is morning
C19_Witness ==
    /\ ut_call = "get_greeting"
    /\ ut_date.sec = Hms(5, 0, 0)
    /\ ut_out = Return("Dobroe utro")

\* the rows whose operation date lies from the first day of the as-of month
\* at 00:00 to the as-of date
MonthToDate(rows, asof) ==
    {i \in 1..Len(rows) :
        /\ rows[i].date.kind = "ts"
        /\ InstLe(<<ToOrdinal(asof.y, asof.m, 1), 0>>,
                  <<ToOrdinal(rows[i].date.y, rows[i].date.m, rows[i].date.d), rows[i].date.sec>>)
        /\ InstLe(<<ToOrdinal(rows[i].date.y, rows[i].date.m, rows[i].date.d), rows[i].date.sec>>,
                  <<ToOrdinal(asof.y, asof.m, asof.d), asof.sec>>)}

\* C20: filter_transactions_by_date returns, in their original order,
\* exactly the rows whose operation date lies between the first day of the
\* as-of month at 00:00 and the as-of date, both ends included; rows of
\* earlier months and rows after the as-of date are left out
C20_MonthToDateRows ==
    ut_call = "filter_transactions_by_date" =>
        LET out == ut_out.value
        IN /\ ut_out.kind = "return"
           /\ {out[k].idx : k \in 1..Len(out)} = MonthToDate(ut_table, ut_date)
           /\ \A j, k \in 1..Len(out) : j < k => out[j].idx < out[k].idx
           /\ \A k \in 1..Len(out) : out[k].row = ut_table[out[k].idx]

\* a row at the first instant of the month is kept, the row one second
\* before it is left out
C20_Witness ==
    /\ ut_call = "filter_transactions_by_date"
    /\ Len(ut_table) = 2
    /\ ut_table[1].date = Timestamp(2023, 12, 31, Hms(23, 59, 59))
    /\ ut_table[2].date = Timestamp(2024, 1, 1, 0)
    /\ ut_date = Timestamp(2024, 1, 15, 0)
    /\ Len(ut_out.value) = 1
    /\ ut_out.value[1].idx = 2

(***************************************************************************)
(* Further claims about spending_by_workday, the wrapper and the cashback  *)
(* analyser.                                                               *)
(***************************************************************************)
PartitionFields ==
    {"total_spent", "avg_spent_per_day", "avg_spent_per_transaction",
     "transaction_count", "days_count"}

\* C27: spending_by_workday returns a result of one shape for every table
\* with the required columns: the same top-level keys and the same field
\* names in each partition, whether the window has expense rows in both
\* partitions, in one, or in none
C27_WorkdayShape ==
    WorkdayCalled =>
        /\ rp_out.kind = "dict"
        /\ rp_out.value # <<>>
        /\ DOMAIN rp_out.value = {"rabochie_dni", "vyhodnye_dni", "sravnenie"}
        /\ DOMAIN rp_out.value.rabochie_dni = PartitionFields
        /\ DOMAIN rp_out.value.vyhodnye_dni = PartitionFields
        /\ DOMAIN rp_out.value.sravnenie
             = {"sootnoshenie_rabochie_k_vyhodnym", "dolya_rabochih_dney_v_tratah",
                "dolya_vyhodnyh_dney_v_tratah"}

\* the per-day figures of the two partitions, under either spelling, as
\* <<workdays, weekends>>, and the ratio
PerDay(out) ==
    IF "rabochie_dni" \in DOMAIN out.value
    THEN << [total |-> out.value.rabochie_dni.total_spent,
             avg |-> out.value.rabochie_dni.avg_spent_per_day,
             days |-> out.value.rabochie_dni.days_count],
            [total |-> out.value.vyhodnye_dni.total_spent,
             avg |-> out.value.vyhodnye_dni.avg_spent_per_day,
             days |-> out.value.vyhodnye_dni.days_count] >>
    ELSE << [total |-> out.value.workday.total_spent, avg |-> out.value.workday.avg_spent,
             days |-> out.value.workday.days],
            [total |-> out.value.weekend.total_spent, avg |-> out.value.weekend.avg_spent,
             days |-> out.value.weekend.days] >>

Ratio(out) ==
    IF "sravnenie" \in DOMAIN out.value
    THEN out.value.sravnenie.sootnoshenie_rabochie_k_vyhodnym
    ELSE out.value.comparison.workday_vs_weekend_ratio

\* the distinct calendar days of the rows of a set
DistinctDays(table, S) ==
    {ToOrdinal(ReportDate(table.rows[i], table.cols).y, ReportDate(table.rows[i], table.cols).m,
               ReportDate(table.rows[i], table.cols).d) : i \in S}

\* x is num / den rounded to 2 decimals (x in hundredths of the unit of num
\* when scale is 1, of the plain quotient when scale is 100)
IsQuotient(x, scale, num, den) == 2 * Abs(x * den - scale * num) <= den

\* C28: a partition's per-day average is its total divided by the number of
\* distinct calendar days on which it has an expense row, 0 when it has
\* none; days_count is that number; the ratio is the workday per-day average
\* divided by the weekend one, 0 when the weekend average is 0; nothing
\* divides by zero
C28_PerDayAverages ==
    WorkdayCalled =>
        LET W == WindowExpenses(rp_table, AsOf(rp_call.date, rp_now))
            weekends == OnWeekday(rp_table, W, 5) \cup OnWeekday(rp_table, W, 6)
            part == PerDay(rp_out)
            days == << Cardinality(DistinctDays(rp_table, W \ weekends)),
                       Cardinality(DistinctDays(rp_table, weekends)) >>
        IN /\ HasPartitions(rp_out)
           /\ \A p \in 1..2 :
                /\ part[p].days = days[p]
                /\ IF days[p] = 0 THEN part[p].avg = 0
                   ELSE IsQuotient(part[p].avg, 1, part[p].total, days[p])
           /\ IF part[2].avg = 0 THEN Ratio(rp_out) = 0
              ELSE IsQuotient(Ratio(rp_out), 100, part[1].avg, part[2].avg)

\* two weekend rows on one day: one day, and the average is their sum
C28_Witness ==
    /\ ReportCalled
    /\ rp_call.op = "spending_by_workday"
    /\ rp_out.kind = "dict"
    /\ rp_out.value # <<>>
    /\ "vyhodnye_dni" \in DOMAIN rp_out.value
    /\ rp_out.value.vyhodnye_dni.transaction_count = 2
    /\ rp_out.value.vyhodnye_dni.days_count = 1
    /\ rp_out.value.vyhodnye_dni.avg_spent_per_day = 15050
    /\ rp_out.value.rabochie_dni.avg_spent_per_day = 0

\* C29: when the wrapped function raises, the exception reaches the caller
\* unchanged and the call creates or modifies no artifact: the artifact is
\* written only after the function has returned
C29_NoArtifactOnRaise ==
    (wr_calls > 0 /\ wr_call.result.kind = "raise") =>
        /\ wr_out = wr_call.result
        /\ wr_dir = wr_before

\* the function raises when the directory has the artifact of an earlier
\* call of it in the same second
C29_Witness ==
    /\ wr_calls = 2
    /\ wr_call.result = Raise("ValueError")
    /\ wr_out = Raise("ValueError")
    /\ default_filename("test_func", WrapperNow(wr_call.tick)) \in DOMAIN wr_before.files
    /\ wr_dir = wr_before

\* C30: an empty record list is a collection without matching rows: the
\* call returns the empty mapping `{}` and does not raise
C30_EmptyListReturnsEmpty ==
    (CashbackCalled /\ cb_data = [cols |-> {}, rows |-> <<>>]) => cb_out = Return(<<>>)

(***************************************************************************)
(* Claims about the dashboard helpers.                                     *)
(***************************************************************************)
ViewCalled(f) == vw_call = f /\ vw_out.kind = "return"

\* the card identifiers that name a card
CardIds(rows) == {rows[i].card : i \in 1..Len(rows)} \ {NoCard, <<>>}

FirstAt(rows, c) == CHOOSE i \in 1..Len(rows) :
                        rows[i].card = c /\ \A j \in 1..(i - 1) : rows[j].card # c

\* the k-th card identifier in order of first appearance
CardAt(rows, k) ==
    CHOOSE c \in CardIds(rows) :
        Cardinality({d \in CardIds(rows) : FirstAt(rows, d) < FirstAt(rows, c)}) = k - 1

Unmasked(c) == SelectSeq(c, LAMBDA ch : ch # "*")

IsSuffix(t, s) == Len(t) <= Len(s) /\ \A k \in 1..Len(t) : t[k] = s[Len(s) - Len(t) + k]

\* the sum of the absolute amounts of the rows of a set
RECURSIVE SpentOn(_, _)
SpentOn(rows, S) ==
    IF S = {} THEN 0
    ELSE LET i == CHOOSE x \in S : TRUE IN SpentOn(rows, S \ {i}) + Abs(rows[i].amt)

ExpenseRows(rows) == {i \in 1..Len(rows) : rows[i].amt < 0}

\* C21: get_cards_info returns one entry per distinct non-empty card
\* identifier, in order of first appearance; total_spent is the sum of the
\* absolute values of the card's negative amounts only, cashback is 1% of it
\* rounded to 2 decimals, last_digits the last four characters of the
\* identifier without its `*` mask
C21_CardsInfo ==
    ViewCalled("get_cards_info") =>
        LET out == vw_out.value
        IN /\ Len(out) = Cardinality(CardIds(vw_table))
           /\ \A k \in 1..Len(out) :
                LET c == CardAt(vw_table, k)
                    spent == SpentOn(vw_table, {i \in ExpenseRows(vw_table) :
                                                   vw_table[i].card = c})
                IN /\ out[k].total_spent = spent
                   /\ IsQuotient(out[k].cashback, 1, spent, 100)
                   /\ IsSuffix(out[k].last_digits, Unmasked(c))
                   /\ Len(out[k].last_digits)
                        = (IF Len(Unmasked(c)) < 4 THEN Len(Unmasked(c)) ELSE 4)

C21_Witness ==
    /\ ViewCalled("get_cards_info")
    /\ \E i \in 1..Len(vw_table) :
          vw_table[i].amt > 0 /\ vw_table[i].card = <<"*", "7", "1", "9", "7">>
    /\ \E i \in 1..Len(vw_table) : vw_table[i].card = NoCard
    /\ vw_out.value = << [last_digits |-> <<"7", "1", "9", "7">>,
                          total_spent |-> 10000, cashback |-> 100],
                         [last_digits |-> <<"5", "0", "9", "1">>,
                          total_spent |-> 30000, cashback |-> 300] >>

\* an entry of the list is the row: its amount without sign, its category,
\* its description and its day
IsEntryOf(e, row) ==
    /\ e.amount = Abs(row.amt)
    /\ e.category = row.cat
    /\ e.description = row.desc
    /\ e.date.y = row.date.y /\ e.date.m = row.date.m /\ e.date.d = row.date.d

\* C22: get_top_transactions returns min(5, number of expense rows) entries,
\* all taken from rows with a negative amount, in non-increasing order of
\* absolute amount, and no expense row left out has a larger absolute amount
\* than a listed one
C22_TopTransactions ==
    ViewCalled("get_top_transactions") =>
        LET out == vw_out.value
            E == ExpenseRows(vw_table)
        IN /\ Len(out) = (IF Cardinality(E) < 5 THEN Cardinality(E) ELSE 5)
           /\ \A k \in 1..Len(out) :
                Cardinality({j \in 1..Len(out) : out[j] = out[k]})
                    <= Cardinality({i \in E : IsEntryOf(out[k], vw_table[i])})
           /\ \A k \in 1..(Len(out) - 1) : out[k].amount >= out[k + 1].amount
           /\ \A i \in E : \A k \in 1..Len(out) :
                Abs(vw_table[i].amt) > out[k].amount =>
                    Cardinality({j \in 1..Len(out) : out[j].amount = Abs(vw_table[i].amt)})
                        = Cardinality({j \in E : vw_table[j].amt = vw_table[i].amt})

C22_Witness ==
    /\ ViewCalled("get_top_transactions")
    /\ Cardinality(ExpenseRows(vw_table)) = 6
    /\ vw_table[1].amt = -10000
    /\ vw_table[6].amt = -30000
    /\ Len(vw_out.value) = 5
    /\ vw_out.value[1].amount = 30000
    /\ vw_out.value[4].amount = 20000
    /\ vw_out.value[5].amount = 10000

\* the categories that have an expense row
SpentCategories(rows) == {rows[i].cat : i \in ExpenseRows(rows)}

SpentIn(rows, c) == SpentOn(rows, {i \in ExpenseRows(rows) : rows[i].cat = c})

\* C25: get_expenses_info computes over the rows with a negative amount only:
\* total is the sum of their absolute amounts, average is total divided by
\* their number (0 when there is none); by_category lists at most 3
\* categories, those of the largest summed absolute expense, in
\* non-increasing order of amount, and the listed amounts never add up to
\* more than total
C25_ExpensesInfo ==
    ViewCalled("get_expenses_info") =>
        LET out == vw_out.value
            E == ExpenseRows(vw_table)
            cats == SpentCategories(vw_table)
            top == out.by_category
            listed == {top[k].category : k \in 1..Len(top)}
        IN /\ out.total = SpentOn(vw_table, E)
           /\ IF E = {} THEN out.average = 0
              ELSE IsQuotient(out.average, 1, out.total, Cardinality(E))
           /\ Len(top) = (IF Cardinality(cats) < 3 THEN Cardinality(cats) ELSE 3)
           /\ Cardinality(listed) = Len(top)
           /\ \A k \in 1..Len(top) :
                top[k].category \in cats /\ top[k].amount = SpentIn(vw_table, top[k].category)
           /\ \A k \in 1..(Len(top) - 1) : top[k].amount >= top[k + 1].amount
           /\ \A c \in cats \ listed : \A k \in 1..Len(top) :
                SpentIn(vw_table, c) <= top[k].amount
           /\ SumSeq([k \in 1..Len(top) |-> top[k].amount]) <= out.total

C25_Witness ==
    /\ ViewCalled("get_expenses_info")
    /\ Cardinality(SpentCategories(vw_table)) = 4
    /\ vw_out.value.total = 65050
    /\ vw_out.value.average = 16262
    /\ Len(vw_out.value.by_category) = 3
    /\ vw_out.value.by_category[1] = [category |-> "Transport", amount |-> 20000]
    /\ vw_out.value.by_category[2] = [category |-> "Razvlecheniya", amount |-> 20000]
    /\ vw_out.value.by_category[3] = [category |-> "Apteki", amount |-> 15050]

(***************************************************************************)
(* Claims about the lookups and the entry points.                          *)
(***************************************************************************)
LookupsCalled == db_call.func \in {"get_currency_rates", "get_stock_prices"}

\* what the lookup of the k-th requested symbol returns or raises
LookupOf(k) ==
    IF db_call.func = "get_currency_rates" THEN get_exchange_rate(db_call.responses[k])
    ELSE get_stock_price(db_call.responses[k])

IsNumber(r) == r.kind = "return" /\ r.value.type = "float"

\* the requests whose lookup returned a number
Numbers == {k \in 1..Len(db_call.symbols) : IsNumber(LookupOf(k))}

NumberAt(j) == CHOOSE k \in Numbers : Cardinality({i \in Numbers : i < k}) = j - 1

SymbolOf(e) == IF db_call.func = "get_currency_rates" THEN e.currency ELSE e.stock

ValueOf(e) == IF db_call.func = "get_currency_rates" THEN e.rate ELSE e.price

Complete(out) ==
    /\ out.kind = "return"
    /\ DOMAIN out.value = {"greeting", "cards", "top_transactions", "currency_rates",
                           "stock_prices", "expenses"}

\* the dashboard of the same run when every lookup answers `absent`
WithoutData ==
    main_page_view(db_call.date_str, db_call.file, db_call.settings_file,
                   [k \in 1..Len(db_call.rate_responses) |-> Response("absent", 0)],
                   [k \in 1..Len(db_call.price_responses) |-> Response("absent", 0)],
                   "first").out

\* C23: get_currency_rates and get_stock_prices look up each requested symbol
\* exactly once, in list order; the result has one entry, in request order,
\* for every symbol whose lookup returned a number and none for a symbol
\* whose lookup failed or returned absent; a failed lookup never prevents the
\* lookups after it nor aborts the dashboard run
C23_Lookups ==
    /\ LookupsCalled =>
          /\ db_looked = db_call.symbols
          /\ db_out.kind = "return"
          /\ Len(db_out.value) = Cardinality(Numbers)
          /\ \A j \in 1..Len(db_out.value) :
                /\ SymbolOf(db_out.value[j]) = db_call.symbols[NumberAt(j)]
                /\ ValueOf(db_out.value[j]) = LookupOf(NumberAt(j)).value
    /\ (db_call.func = "main_page_view" /\ Complete(WithoutData)) =>
          /\ db_looked = db_call.symbols
          /\ Complete(db_out)

\* C24: main_page_view and get_report_by_category never raise: whatever the
\* input string and whichever collaborator fails, they return the complete
\* result object or an object of the single entry `error`, never a part of
\* the result
C24_EntryPointsReturn ==
    db_call.func \in {"main_page_view", "get_report_by_category"} =>
        /\ db_out.kind = "return"
        /\ \/ DOMAIN db_out.value = {"error"}
           \/ db_call.func = "main_page_view" /\ Complete(db_out)

C24_Witness ==
    /\ db_call.func = "main_page_view"
    /\ db_call.rate_responses = <<Response("null_section", 0)>>
    /\ Complete(WithoutData)
    /\ db_out = Return(ErrorObject("Vnutrennyaya oshibka servera"))

(***************************************************************************)
(* Claims about the table a call is given.                                 *)
(***************************************************************************)
\* C26: no analysis operation modifies the table it is given: after any
\* sequence of calls the caller's table has the same rows, columns, values
\* and order as before the calls
C26_TableUnchanged == fr_table = fr_given

\* two calls, the last one a report that converts the texts of the date
\* column, on a table that has such texts
C26_Witness ==
    /\ fr_calls = 2
    /\ fr_op = "spending_by_category"
    /\ assigned(fr_op, fr_given) # fr_given
    /\ fr_table = fr_given

====
